---- MODULE Spec2Model ----
(***************************************************************************)
(* Scoring and regression tracking of react-perf.                          *)
(*                                                                         *)
(* SpecScore : the three score calculators (PerformanceAnalyzer,           *)
(*             QuickPerfChecker, BulkPerfChecker) applied to one file.     *)
(* Spec      : PerformanceSnapshotManager.saveBaseline / loadBaseline /    *)
(*             compareWithBaseline on a baseline directory.                *)
(* SpecAlert : PRAlertSystem.generateAlertReport against stored baselines. *)
(* SpecStore : the snapshot files of one PerformanceSnapshotManager:       *)
(*             create, save, load, list and clean up, with the baselines.  *)
(* SpecCI    : runs of CIPerformanceChecker over a snapshots directory.    *)
(* SpecRace  : calls on a PerformanceSnapshotManager that are not awaited  *)
(*             one by one.                                                 *)
(* SpecMemo  : functions wrapped by memoize and the shared memoCache.      *)
(* SpecLazy  : get() and reset() calls on one LazyLoader.                  *)
(***************************************************************************)
EXTENDS Integers, Sequences, FiniteSets, Bags, TLC

VARIABLES
    issues,         \* PerformanceAnalyzer.issues: bag of severities found in the file
    totalLines,     \* lines.length of the analysed file
    analyzerScore,  \* result of PerformanceAnalyzer.calculateScore
    quickScore,     \* result of QuickPerfChecker.calculateScore
    bulkScore,      \* result of BulkPerfChecker.calculateFileScore
    baselineDir,    \* baselines/baseline-<branch>.json: branch -> stored document or Absent
    result,         \* the PerformanceSnapshotManager call being awaited and its value
    snapshotsDir,   \* <snapshotsDir>/<id>.json: id -> stored document or Absent
    now,            \* Date.now()
    thresholds,     \* PRAlertSystem.thresholds
    otherFiles,     \* files of <snapshotsDir> that are not <id>.json snapshot files
    calls,          \* async calls made on one manager and not yet awaited to the end
    memoCache,      \* the module-level memoCache: key -> cached result
    invocations,    \* how often each wrapped function has been invoked
    module,         \* LazyLoader.module
    loads,          \* the calls of reset() and of LazyLoader.loader since the last of them
    getters         \* the position of each LazyLoader.get() call

scoreVars == <<issues, totalLines, analyzerScore, quickScore, bulkScore>>
storeVars == <<baselineDir, result, snapshotsDir, now, thresholds>>
sideVars == <<otherFiles, calls, memoCache, invocations, module, loads, getters>>
vars == <<issues, totalLines, analyzerScore, quickScore, bulkScore,
          baselineDir, result, snapshotsDir, now, thresholds,
          otherFiles, calls, memoCache, invocations, module, loads, getters>>

-----------------------------------------------------------------------------
(* Bounds of the score model *)

MaxHigh == 7
MaxMedium == 11
MaxLow == 21
MaxLines == 502

\* File lengths around the two thresholds of the size bonus.
LineCounts == {1} \cup (98..102) \cup (498..MaxLines)

-----------------------------------------------------------------------------
(* JavaScript helpers on integers *)

MathMax(a, b) == IF a >= b THEN a ELSE b

MathMin(a, b) == IF a <= b THEN a ELSE b

\* Math.round: floor(x + 0.5)
MathRound(x) == (2 * x + 1) \div 2

-----------------------------------------------------------------------------
(* Issues *)

Severity == {"high", "medium", "low"}

\* The priority label the quick and bulk checkers push for a finding of the
\* given weight class (the emoji prefix of the label is left out).
PriorityOf(sev) ==
    CASE sev = "high" -> "HIGH"
      [] sev = "medium" -> "MEDIUM"
      [] sev = "low" -> "LOW"

\* issues.filter(i => i.severity === sev).length
CountSeverity(bag, sev) == CopiesIn(sev, bag)

\* The issue list the quick / bulk checker builds for the same findings.
PriorityIssues(bag) ==
    [p \in {PriorityOf(s) : s \in BagToSet(bag)} |->
        bag[CHOOSE s \in BagToSet(bag) : PriorityOf(s) = p]]

calculateSummary(bag) ==
    [totalIssues |-> BagCardinality(bag),
     lowSeverity |-> CountSeverity(bag, "low"),
     highSeverity |-> CountSeverity(bag, "high"),
     mediumSeverity |-> CountSeverity(bag, "medium")]

-----------------------------------------------------------------------------
(* PerformanceAnalyzer.calculateScore *)

baseScore == 100

highDeductionBreakdownWeight(summary) == summary.highSeverity * 10

highDeduction(summary) == summary.highSeverity * 15

mediumDeductionBreakdownWeight(summary) == summary.mediumSeverity * 10

mediumDeduction(summary) == summary.mediumSeverity * 8

lowDeductionNone(summary) == 0

lowDeduction(summary) == summary.lowSeverity * 2

cleanCodeBonusNone(summary) == 0

cleanCodeBonusInverted(summary) == IF summary.totalIssues # 0 THEN 10 ELSE 0

cleanCodeBonus(summary) == IF summary.totalIssues = 0 THEN 10 ELSE 0

sizeBonus(lines) == IF lines < 100 THEN 5 ELSE IF lines > 500 THEN -10 ELSE 0

totalScore(summary, lines) ==
    MathMax(0,
        MathMin(100,
            baseScore - highDeduction(summary) - mediumDeduction(summary)
                - lowDeduction(summary) + cleanCodeBonus(summary) + sizeBonus(lines)))

memoryLeaksUnclamped(summary) == 100 - summary.highSeverity * 20

memoryLeaks(summary) == MathMax(0, 100 - summary.highSeverity * 20)

performance(summary) == MathMax(0, 100 - summary.mediumSeverity * 10)

codeQuality(summary) == MathMax(0, 100 - summary.lowSeverity * 5)

gradeExclusive(score) ==
    IF score > 90 THEN "A+"
    ELSE IF score > 85 THEN "A"
    ELSE IF score > 80 THEN "A-"
    ELSE IF score > 75 THEN "B+"
    ELSE IF score > 70 THEN "B"
    ELSE IF score > 65 THEN "B-"
    ELSE IF score > 60 THEN "C+"
    ELSE IF score > 55 THEN "C"
    ELSE IF score > 50 THEN "C-"
    ELSE IF score > 45 THEN "D+"
    ELSE IF score > 40 THEN "D"
    ELSE IF score > 35 THEN "D-"
    ELSE "F"

grade(score) ==
    IF score >= 90 THEN "A+"
    ELSE IF score >= 85 THEN "A"
    ELSE IF score >= 80 THEN "A-"
    ELSE IF score >= 75 THEN "B+"
    ELSE IF score >= 70 THEN "B"
    ELSE IF score >= 65 THEN "B-"
    ELSE IF score >= 60 THEN "C+"
    ELSE IF score >= 55 THEN "C"
    ELSE IF score >= 50 THEN "C-"
    ELSE IF score >= 45 THEN "D+"
    ELSE IF score >= 40 THEN "D"
    ELSE IF score >= 35 THEN "D-"
    ELSE "F"

calculateScore(summary, lines) ==
    [grade |-> grade(totalScore(summary, lines)),
     total |-> MathRound(totalScore(summary, lines)),
     breakdown |-> [memoryLeaks |-> MathRound(memoryLeaks(summary)),
                    performance |-> MathRound(performance(summary)),
                    codeQuality |-> MathRound(codeQuality(summary))]]

-----------------------------------------------------------------------------
(* QuickPerfChecker.calculateScore *)

QuickCalculateScore(list, lines) ==
    LET baseScoreQ == 100
        highIssues == CopiesIn("HIGH", list)
        mediumIssues == CopiesIn("MEDIUM", list)
        lowIssues == CopiesIn("LOW", list)
        highDeductionQ == highIssues * 15
        mediumDeductionQ == mediumIssues * 8
        lowDeductionQ == lowIssues * 2
        cleanCodeBonusQ == IF BagCardinality(list) = 0 THEN 10 ELSE 0
        sizeBonusQ == IF lines < 100 THEN 5 ELSE IF lines > 500 THEN -10 ELSE 0
        totalScoreQ ==
            MathMax(0,
                MathMin(100,
                    baseScoreQ - highDeductionQ - mediumDeductionQ - lowDeductionQ
                        + cleanCodeBonusQ + sizeBonusQ))
        memoryLeaksQ == MathMax(0, 100 - highIssues * 20)
        performanceQ == MathMax(0, 100 - mediumIssues * 10)
        codeQualityQ == MathMax(0, 100 - lowIssues * 5)
        gradeQ ==
            IF totalScoreQ >= 90 THEN "A+"
            ELSE IF totalScoreQ >= 85 THEN "A"
            ELSE IF totalScoreQ >= 80 THEN "A-"
            ELSE IF totalScoreQ >= 75 THEN "B+"
            ELSE IF totalScoreQ >= 70 THEN "B"
            ELSE IF totalScoreQ >= 65 THEN "B-"
            ELSE IF totalScoreQ >= 60 THEN "C+"
            ELSE IF totalScoreQ >= 55 THEN "C"
            ELSE IF totalScoreQ >= 50 THEN "C-"
            ELSE IF totalScoreQ >= 45 THEN "D+"
            ELSE IF totalScoreQ >= 40 THEN "D"
            ELSE IF totalScoreQ >= 35 THEN "D-"
            ELSE "F"
    IN  [grade |-> gradeQ,
         total |-> MathRound(totalScoreQ),
         breakdown |-> [memoryLeaks |-> MathRound(memoryLeaksQ),
                        performance |-> MathRound(performanceQ),
                        codeQuality |-> MathRound(codeQualityQ)]]

-----------------------------------------------------------------------------
(* BulkPerfChecker.calculateFileScore *)

calculateFileScore(list, lines) ==
    LET baseScoreB == 100
        highIssues == CopiesIn("HIGH", list)
        mediumIssues == CopiesIn("MEDIUM", list)
        lowIssues == CopiesIn("LOW", list)
        highDeductionB == highIssues * 15
        mediumDeductionB == mediumIssues * 8
        lowDeductionB == lowIssues * 2
        cleanCodeBonusB == IF BagCardinality(list) = 0 THEN 10 ELSE 0
        sizeBonusB == IF lines < 100 THEN 5 ELSE IF lines > 500 THEN -10 ELSE 0
        totalScoreB ==
            MathMax(0,
                MathMin(100,
                    baseScoreB - highDeductionB - mediumDeductionB - lowDeductionB
                        + cleanCodeBonusB + sizeBonusB))
        memoryLeaksB == MathMax(0, 100 - highIssues * 20)
        performanceB == MathMax(0, 100 - mediumIssues * 10)
        codeQualityB == MathMax(0, 100 - lowIssues * 5)
        gradeB ==
            IF totalScoreB >= 90 THEN "A+"
            ELSE IF totalScoreB >= 85 THEN "A"
            ELSE IF totalScoreB >= 80 THEN "A-"
            ELSE IF totalScoreB >= 75 THEN "B+"
            ELSE IF totalScoreB >= 70 THEN "B"
            ELSE IF totalScoreB >= 65 THEN "B-"
            ELSE IF totalScoreB >= 60 THEN "C+"
            ELSE IF totalScoreB >= 55 THEN "C"
            ELSE IF totalScoreB >= 50 THEN "C-"
            ELSE IF totalScoreB >= 45 THEN "D+"
            ELSE IF totalScoreB >= 40 THEN "D"
            ELSE IF totalScoreB >= 35 THEN "D-"
            ELSE "F"
    IN  [grade |-> gradeB,
         total |-> MathRound(totalScoreB),
         breakdown |-> [memoryLeaks |-> MathRound(memoryLeaksB),
                        performance |-> MathRound(performanceB),
                        codeQuality |-> MathRound(codeQualityB)]]

-----------------------------------------------------------------------------
(* The score specification: one file, analysed by the three checkers *)

MaxOf(sev) ==
    CASE sev = "high" -> MaxHigh
      [] sev = "medium" -> MaxMedium
      [] sev = "low" -> MaxLow

\* analyzeFile / checkFile: score the findings of a file of `lines` lines.
Scored(bag, lines) ==
    /\ issues' = bag
    /\ totalLines' = lines
    /\ analyzerScore' = calculateScore(calculateSummary(bag), lines)
    /\ quickScore' = QuickCalculateScore(PriorityIssues(bag), lines)
    /\ bulkScore' = calculateFileScore(PriorityIssues(bag), lines)

\* No file besides the snapshots, no call in flight, nothing memoized and no
\* LazyLoader: the parts of the state a specification does not use.
SideIdle ==
    /\ otherFiles = {}
    /\ calls = <<>>
    /\ memoCache = <<>>
    /\ invocations = <<>>
    /\ module = <<>>
    /\ loads = 0
    /\ getters = <<>>

\* analyzeFile starts from an empty issue list.
InitScore ==
    /\ issues = EmptyBag
    /\ totalLines \in LineCounts
    /\ analyzerScore = calculateScore(calculateSummary(issues), totalLines)
    /\ quickScore = QuickCalculateScore(PriorityIssues(issues), totalLines)
    /\ bulkScore = calculateFileScore(PriorityIssues(issues), totalLines)
    /\ baselineDir = <<>>
    /\ result = <<>>
    /\ snapshotsDir = <<>>
    /\ now = 0
    /\ thresholds = <<>>
    /\ SideIdle

\* The same file with one more finding of severity sev (addIssue), re-analysed.
AddIssue(sev) ==
    /\ CopiesIn(sev, issues) < MaxOf(sev)
    /\ Scored(issues (+) SetToBag({sev}), totalLines)
    /\ UNCHANGED <<storeVars, sideVars>>

NextScore == \E sev \in Severity : AddIssue(sev)

SpecScore == InitScore /\ [][NextScore]_vars

-----------------------------------------------------------------------------
(* JavaScript numbers: IEEE 754 binary64, round to nearest, ties to even.  *)
(*                                                                         *)
(* A finite number is [neg, mag]: its sign and its magnitude, the latter   *)
(* as the binary digits, most significant first and without leading zeros, *)
(* of the magnitude counted in units of 2^-UnitBits.  Every binary64 value *)
(* between 2^-10 and 2^10 is a whole number of such units.                 *)

Precision == 53

UnitBits == 63

\* Values of a number field: NaN, the null of a JSON document, or the decimal
\* literal k/1000 written as [num |-> k].
NaN == [nan |-> TRUE]

Null == [null |-> TRUE]

Num(k) == [num |-> k]

Zeros(n) == [i \in 1..n |-> 0]

RECURSIVE NatBits(_)
\* The binary digits of the natural number n.
NatBits(n) == IF n = 0 THEN <<>> ELSE Append(NatBits(n \div 2), n % 2)

\* Drop leading zeros.
Strip(bits) ==
    IF \A i \in 1..Len(bits) : bits[i] = 0 THEN <<>>
    ELSE LET first == CHOOSE i \in 1..Len(bits) :
                          bits[i] = 1 /\ \A j \in 1..(i - 1) : bits[j] = 0
         IN  SubSeq(bits, first, Len(bits))

\* bits + 1
Increment(bits) ==
    IF \A i \in 1..Len(bits) : bits[i] = 1 THEN <<1>> \o Zeros(Len(bits))
    ELSE LET last == CHOOSE i \in 1..Len(bits) :
                         bits[i] = 0 /\ \A j \in (i + 1)..Len(bits) : bits[j] = 1
         IN  SubSeq(bits, 1, last - 1) \o <<1>> \o Zeros(Len(bits) - last)

RECURSIVE DivideFrom(_, _, _)
\* Long division of bits by the small divisor d, entered with remainder r
\* from the digits to the left: quotient digits and remainder.  The left
\* half is worked off before the right half is entered with its remainder.
DivideFrom(bits, d, r) ==
    IF Len(bits) = 0 THEN [q |-> <<>>, r |-> r]
    ELSE IF Len(bits) = 1
    THEN LET t == 2 * r + bits[1]
         IN  IF t >= d THEN [q |-> <<1>>, r |-> t - d] ELSE [q |-> <<0>>, r |-> t]
    ELSE LET half == Len(bits) \div 2
             left == DivideFrom(SubSeq(bits, 1, half), d, r)
         IN  IF left.r < d
             THEN LET right == DivideFrom(SubSeq(bits, half + 1, Len(bits)), d, left.r)
                  IN  [q |-> left.q \o right.q, r |-> right.r]
             ELSE left

LongDivide(bits, d) == DivideFrom(bits, d, 0)

RECURSIVE SubtractFrom(_, _, _)
\* x - y - borrow for digit strings of equal length: the digits and the
\* borrow passed on to the left.  The right half is worked off before the
\* left half is entered with its borrow.
SubtractFrom(x, y, borrow) ==
    IF Len(x) = 0 THEN [d |-> <<>>, b |-> borrow]
    ELSE IF Len(x) = 1
    THEN LET t == x[1] - y[1] - borrow
         IN  IF t < 0 THEN [d |-> <<t + 2>>, b |-> 1] ELSE [d |-> <<t>>, b |-> 0]
    ELSE LET half == Len(x) \div 2
             right == SubtractFrom(SubSeq(x, half + 1, Len(x)),
                                   SubSeq(y, half + 1, Len(y)), borrow)
         IN  IF right.b <= 1
             THEN LET left == SubtractFrom(SubSeq(x, 1, half), SubSeq(y, 1, half),
                                           right.b)
                  IN  [d |-> left.d \o right.d, b |-> left.b]
             ELSE right

SubtractBits(x, y, borrow) == SubtractFrom(x, y, borrow).d

\* x < y for magnitudes without leading zeros.
MagLess(x, y) ==
    \/ Len(x) < Len(y)
    \/ /\ Len(x) = Len(y)
       /\ \E i \in 1..Len(x) :
             /\ x[i] < y[i]
             /\ \A j \in 1..(i - 1) : x[j] = y[j]

\* x - y for magnitudes with x >= y.
MagMinus(x, y) == Strip(SubtractBits(x, Zeros(Len(x) - Len(y)) \o y, 0))

\* Round a magnitude to Precision significant digits, ties to even; sticky
\* tells that digits below the last one of bits were already cut off.
RoundToPrecision(bits, sticky) ==
    IF Len(bits) <= Precision THEN bits
    ELSE LET kept == SubSeq(bits, 1, Precision)
             guard == bits[Precision + 1]
             rest == sticky \/ \E i \in (Precision + 2)..Len(bits) : bits[i] = 1
             up == guard = 1 /\ (rest \/ kept[Precision] = 1)
         IN  (IF up THEN Increment(kept) ELSE kept) \o Zeros(Len(bits) - Precision)

\* Decimal literals are written in thousandths: the literal of k is k/1000.
Thousandths == 1000

\* The number a decimal literal k/1000 parses to (k >= 0).
ParseNumber(k) ==
    LET d == LongDivide(NatBits(k) \o Zeros(UnitBits), Thousandths)
    IN  [neg |-> FALSE, mag |-> RoundToPrecision(Strip(d.q), d.r # 0)]

\* The number an arithmetic operand stands for: null coerces to 0.
ToNumber(v) ==
    IF v = NaN THEN NaN
    ELSE IF v = Null THEN [neg |-> FALSE, mag |-> <<>>]
    ELSE ParseNumber(v.num)

IsNaN(x) == x = NaN

\* x < y ; false when either side is NaN.
NumLess(x, y) ==
    IF IsNaN(x) \/ IsNaN(y) THEN FALSE
    ELSE IF x.neg /\ ~y.neg THEN x.mag # <<>> \/ y.mag # <<>>
    ELSE IF ~x.neg /\ y.neg THEN FALSE
    ELSE IF x.neg THEN MagLess(y.mag, x.mag)
    ELSE MagLess(x.mag, y.mag)

\* x - y for numbers that are NaN or not negative.
NumMinus(x, y) ==
    IF IsNaN(x) \/ IsNaN(y) THEN NaN
    ELSE IF MagLess(x.mag, y.mag)
         THEN [neg |-> TRUE, mag |-> RoundToPrecision(MagMinus(y.mag, x.mag), FALSE)]
         ELSE [neg |-> FALSE, mag |-> RoundToPrecision(MagMinus(x.mag, y.mag), FALSE)]

\* Math.abs
MathAbs(x) == IF IsNaN(x) THEN NaN ELSE [neg |-> FALSE, mag |-> x.mag]

NumZero == [neg |-> FALSE, mag |-> <<>>]

\* Math.max(0, x): NaN when x is NaN.
MathMaxZero(x) ==
    IF IsNaN(x) THEN NaN
    ELSE IF NumLess(x, NumZero) THEN NumZero
    ELSE x

-----------------------------------------------------------------------------
(* Snapshots and the baseline directory *)

MaxFiles == 2
MaxIssues == 1

Branches == {"main"}

Paths == {"a.ts", "b.ts"}

\* Per-file scores and average scores, as decimal literals in thousandths.
ScoreLiterals == {60000, 60009, 60010, 80000}

AverageLiterals == {60000, 80000}

ScoreValues == {Num(k) : k \in ScoreLiterals}

AverageValues == {Num(k) : k \in AverageLiterals} \cup {NaN, Null}

\* FileAnalysisSummary; the fields the comparison does not read are left out.
FileSummaries == [filePath : Paths, score : ScoreValues]

\* fileAnalysis lists: every filePath at most once.
FileLists ==
    {fl \in UNION {[1..n -> FileSummaries] : n \in 0..MaxFiles} :
        \A i, j \in 1..Len(fl) : fl[i].filePath = fl[j].filePath => i = j}

\* The snapshots handed to saveBaseline and compareWithBaseline.  A snapshot
\* without files is the one createSnapshot([]) returns: the sums are 0 and
\* the average is 0 / 0.
Snapshots ==
    UNION {{[metrics |-> [totalFiles |-> Len(fl), totalIssues |-> t,
                          highSeverityIssues |-> h, averageScore |-> avg],
             fileAnalysis |-> fl] :
               fl \in FileLists \ {<<>>},
               h \in 0..t,
               avg \in {Num(k) : k \in AverageLiterals}} : t \in 0..MaxIssues}
    \cup
    {[metrics |-> [totalFiles |-> 0, totalIssues |-> 0,
                   highSeverityIssues |-> 0, averageScore |-> NaN],
      fileAnalysis |-> <<>>]}

Absent == [absent |-> TRUE]

Void == [void |-> TRUE]

Idle == [op |-> "idle"]

\* JSON.stringify of a number field: NaN is written as null.
StringifyNumber(v) == IF v = NaN THEN Null ELSE v

\* The metrics that are averages; the others are sums of integers.
AverageMetrics == {"averageScore", "performanceScore", "memoryScore", "codeQualityScore"}

\* JSON.stringify(snapshot, null, 2)
JsonStringify(snapshot) ==
    [snapshot EXCEPT
        !.metrics = [k \in DOMAIN @ |->
                        IF k \in AverageMetrics THEN StringifyNumber(@[k]) ELSE @[k]],
        !.fileAnalysis = [i \in 1..Len(@) |-> [@[i] EXCEPT !.score = StringifyNumber(@)]]]

saveBaselineKeepExisting(dir, snapshot, branch) ==
    IF dir[branch] = Absent THEN [dir EXCEPT ![branch] = JsonStringify(snapshot)] ELSE dir

\* fs.writeFileSync of baselines/baseline-<branch>.json
saveBaseline(dir, snapshot, branch) ==
    [dir EXCEPT ![branch] = JsonStringify(snapshot)]

\* fs.existsSync + JSON.parse(fs.readFileSync(...)): the values of the stored
\* document, null when there is no file for the branch.
loadBaseline(dir, branch) ==
    IF dir[branch] = Absent THEN Null ELSE dir[branch]

-----------------------------------------------------------------------------
(* The arithmetic of the comparison, tabulated over the values in use *)

\* 0.01
Tolerance == ParseNumber(10)

\* c < b
Lower ==
    [c \in ScoreValues \cup {Null}, b \in ScoreValues \cup {Null} |->
        NumLess(ToNumber(c), ToNumber(b))]

\* Math.abs(c - b) < 0.01
WithinTolerance ==
    [c \in ScoreValues \cup {Null}, b \in ScoreValues \cup {Null} |->
        NumLess(MathAbs(NumMinus(ToNumber(c), ToNumber(b))), Tolerance)]

\* Math.max(0, x - y)
Excess ==
    [x \in AverageValues, y \in AverageValues |->
        MathMaxZero(NumMinus(ToNumber(x), ToNumber(y)))]

-----------------------------------------------------------------------------
(* PerformanceSnapshotManager.compareWithBaseline *)

\* files.find(f => f.filePath === path): the first match, Absent for undefined
find(files, path) ==
    IF \E i \in 1..Len(files) : files[i].filePath = path
    THEN files[CHOOSE i \in 1..Len(files) :
                  /\ files[i].filePath = path
                  /\ \A j \in 1..(i - 1) : files[j].filePath # path]
    ELSE Absent

FilePaths(files) == [i \in 1..Len(files) |-> files[i].filePath]

regressedFilesNotHigher(baseline, current) ==
    LET Regressed(baselineFile) ==
            LET currentFile == find(current.fileAnalysis, baselineFile.filePath)
            IN  /\ currentFile # Absent
                /\ ~Lower[baselineFile.score, currentFile.score]
    IN  FilePaths(SelectSeq(baseline.fileAnalysis, Regressed))

regressedFiles(baseline, current) ==
    LET Regressed(baselineFile) ==
            LET currentFile == find(current.fileAnalysis, baselineFile.filePath)
            IN  /\ currentFile # Absent
                /\ Lower[currentFile.score, baselineFile.score]
    IN  FilePaths(SelectSeq(baseline.fileAnalysis, Regressed))

improvedFiles(baseline, current) ==
    LET Improved(baselineFile) ==
            LET currentFile == find(current.fileAnalysis, baselineFile.filePath)
            IN  /\ currentFile # Absent
                /\ Lower[baselineFile.score, currentFile.score]
    IN  FilePaths(SelectSeq(baseline.fileAnalysis, Improved))

unchangedFilesBeyondTolerance(baseline, current) ==
    LET Unchanged(baselineFile) ==
            LET currentFile == find(current.fileAnalysis, baselineFile.filePath)
            IN  /\ currentFile # Absent
                /\ ~WithinTolerance[currentFile.score, baselineFile.score]
    IN  FilePaths(SelectSeq(baseline.fileAnalysis, Unchanged))

unchangedFiles(baseline, current) ==
    LET Unchanged(baselineFile) ==
            LET currentFile == find(current.fileAnalysis, baselineFile.filePath)
            IN  /\ currentFile # Absent
                /\ WithinTolerance[currentFile.score, baselineFile.score]
    IN  FilePaths(SelectSeq(baseline.fileAnalysis, Unchanged))

calculateRegressionSwapped(baseline, current) ==
    [totalIssues |-> MathMax(0, current.metrics.totalIssues - baseline.metrics.totalIssues),
     highSeverityIssues |->
        MathMax(0, current.metrics.highSeverityIssues - baseline.metrics.highSeverityIssues),
     averageScore |-> Excess[current.metrics.averageScore, baseline.metrics.averageScore],
     filesWithRegressions |-> regressedFiles(baseline, current)]

calculateRegression(baseline, current) ==
    [totalIssues |-> MathMax(0, current.metrics.totalIssues - baseline.metrics.totalIssues),
     highSeverityIssues |->
        MathMax(0, current.metrics.highSeverityIssues - baseline.metrics.highSeverityIssues),
     averageScore |-> Excess[baseline.metrics.averageScore, current.metrics.averageScore],
     filesWithRegressions |-> regressedFiles(baseline, current)]

calculateImprovement(baseline, current) ==
    [totalIssues |-> MathMax(0, baseline.metrics.totalIssues - current.metrics.totalIssues),
     highSeverityIssues |->
        MathMax(0, baseline.metrics.highSeverityIssues - current.metrics.highSeverityIssues),
     averageScore |-> Excess[current.metrics.averageScore, baseline.metrics.averageScore],
     filesWithImprovements |-> improvedFiles(baseline, current)]

calculateUnchanged(baseline, current) ==
    [totalFiles |-> Len(unchangedFiles(baseline, current)),
     files |-> unchangedFiles(baseline, current)]

compareWithBaseline(dir, currentSnapshot, baselineBranch) ==
    LET baseline == loadBaseline(dir, baselineBranch)
    IN  IF baseline = Null THEN Null
        ELSE [baseline |-> baseline,
              current |-> currentSnapshot,
              regression |-> calculateRegression(baseline, currentSnapshot),
              improvement |-> calculateImprovement(baseline, currentSnapshot),
              unchanged |-> calculateUnchanged(baseline, currentSnapshot)]

-----------------------------------------------------------------------------
(* Snapshot ids and the clock *)

MaxTime == 1

Times == 0..MaxTime

\* Math.random().toString(36).substr(2, 9)
RandomSuffixes == {"k3x9", "q7m2"}

\* `snapshot-${Date.now()}-${suffix}`: the two parts are kept apart, the
\* digits of the time and the suffix being separated by "-".
generateSnapshotId(time, suffix) == [time |-> time, suffix |-> suffix]

SnapshotIds == {generateSnapshotId(t, r) : t \in Times, r \in RandomSuffixes}

-----------------------------------------------------------------------------
(* PRAlertSystem: thresholds *)

\* The defaults of the constructor.
DefaultThresholds ==
    [maxScoreRegression |-> 5,
     maxHighSeverityIncrease |-> 2,
     maxTotalIssuesIncrease |-> 10,
     minScoreImprovement |-> 2]

-----------------------------------------------------------------------------
(* The comparison specification: calls on one PerformanceSnapshotManager,   *)
(* each awaited before the next one is made                                *)

Init ==
    /\ baselineDir = [b \in Branches |-> Absent]
    /\ result = Idle
    /\ issues = EmptyBag
    /\ totalLines = 1
    /\ analyzerScore = <<>>
    /\ quickScore = <<>>
    /\ bulkScore = <<>>
    /\ snapshotsDir = [id \in SnapshotIds |-> Absent]
    /\ now = 0
    /\ thresholds = DefaultThresholds
    /\ SideIdle

SaveBaseline(snapshot, branch) ==
    /\ result = Idle
    /\ baselineDir' = saveBaseline(baselineDir, snapshot, branch)
    /\ result' = [op |-> "saveBaseline", snapshot |-> snapshot, branch |-> branch,
                  value |-> Void]
    /\ UNCHANGED <<scoreVars, sideVars, snapshotsDir, now, thresholds>>

LoadBaseline(branch) ==
    /\ result = Idle
    /\ result' = [op |-> "loadBaseline", branch |-> branch,
                  value |-> loadBaseline(baselineDir, branch)]
    /\ UNCHANGED <<baselineDir, scoreVars, sideVars, snapshotsDir, now, thresholds>>

CompareWithBaselineAdopting(snapshot, branch) ==
    /\ result = Idle
    /\ result' = [op |-> "compareWithBaseline", currentSnapshot |-> snapshot,
                  baselineBranch |-> branch,
                  value |-> compareWithBaseline(baselineDir, snapshot, branch)]
    /\ baselineDir' = IF loadBaseline(baselineDir, branch) = Null
                      THEN saveBaseline(baselineDir, snapshot, branch)
                      ELSE baselineDir
    /\ UNCHANGED <<scoreVars, sideVars, snapshotsDir, now, thresholds>>

\* The awaited call is kept with its arguments.
CompareWithBaseline(snapshot, branch) ==
    /\ result = Idle
    /\ result' = [op |-> "compareWithBaseline", currentSnapshot |-> snapshot,
                  baselineBranch |-> branch,
                  value |-> compareWithBaseline(baselineDir, snapshot, branch)]
    /\ UNCHANGED <<baselineDir, scoreVars, sideVars, snapshotsDir, now, thresholds>>

\* The caller has taken the value of the awaited call.
Return ==
    /\ result # Idle
    /\ result' = Idle
    /\ UNCHANGED <<baselineDir, scoreVars, sideVars, snapshotsDir, now, thresholds>>

Next ==
    \/ \E s \in Snapshots, b \in Branches : SaveBaseline(s, b)
    \/ \E b \in Branches : LoadBaseline(b)
    \/ \E s \in Snapshots, b \in Branches : CompareWithBaseline(s, b)
    \/ Return

Spec == Init /\ [][Next]_vars

-----------------------------------------------------------------------------
(* PRAlertSystem.generateAlertReport *)

\* The Partial<AlertThresholds> handed to the constructor, key by key: {}
\* when the key is not given, {v} when it is given as v.
PartialThresholds ==
    [maxScoreRegression : {{}, {20}},
     maxHighSeverityIncrease : {{}, {0}, {1}},
     maxTotalIssuesIncrease : {{}, {0}, {1}},
     minScoreImprovement : {{}}]

\* { ...defaults, ...thresholds }
MergeThresholds(partial) ==
    [k \in DOMAIN DefaultThresholds |->
        IF partial[k] = {} THEN DefaultThresholds[k] ELSE CHOOSE v \in partial[k] : TRUE]

ThresholdSettings == {MergeThresholds(p) : p \in PartialThresholds}

\* The numbers an average-score delta is compared with.
ScoreThresholds ==
    {0} \cup {t.maxScoreRegression : t \in ThresholdSettings}
        \cup {t.minScoreImprovement : t \in ThresholdSettings}

\* The average-score deltas a comparison can hold.
ExcessValues == {Excess[x, y] : x, y \in AverageValues}

\* x > t
Above ==
    [x \in ExcessValues, t \in ScoreThresholds |->
        NumLess(ParseNumber(t * Thousandths), x)]

\* x <= t : false when x is NaN
AtMost(x, t) == ~IsNaN(x) /\ ~Above[x, t]

\* The entries of criticalIssues, warnings and recommendations: the text of
\* the template with the integers it interpolates.  An amount printed with
\* toFixed(2) and the list of file names are not part of the entry.
ScoreRegressed(t) == [text |-> "Performance score regressed by", threshold |-> t]

HighSeverityIncreased(n, t) ==
    [text |-> "High severity issues increased by", amount |-> n, threshold |-> t]

TotalIssuesIncreased(n, t) ==
    [text |-> "Total issues increased by", amount |-> n, threshold |-> t]

SlightlyRegressed == [text |-> "Performance score slightly regressed by"]

FilesRegressed(n) == [text |-> "files show performance regressions", amount |-> n]

GreatImprovement == [text |-> "Great improvement! Performance score improved by"]

ReviewFiles == [text |-> "Review the following files for performance issues:"]

FilesImproved(n) ==
    [text |-> "files show improvements - consider these patterns for other files",
     amount |-> n]

NoBaselineFound == [text |-> "No baseline found for comparison"]

CreateBaselineFirst == [text |-> "Create a baseline snapshot first"]

\* if (condition) list.push(entry)
When(condition, entry) == IF condition THEN <<entry>> ELSE <<>>

criticalIssuesShortCircuit(comparison, th) ==
    IF Above[comparison.regression.averageScore, th.maxScoreRegression]
    THEN <<ScoreRegressed(th.maxScoreRegression)>>
    ELSE IF comparison.regression.highSeverityIssues > th.maxHighSeverityIncrease
    THEN <<HighSeverityIncreased(comparison.regression.highSeverityIssues,
                                 th.maxHighSeverityIncrease)>>
    ELSE When(comparison.regression.totalIssues > th.maxTotalIssuesIncrease,
              TotalIssuesIncreased(comparison.regression.totalIssues,
                                   th.maxTotalIssuesIncrease))

criticalIssues(comparison, th) ==
    When(Above[comparison.regression.averageScore, th.maxScoreRegression],
         ScoreRegressed(th.maxScoreRegression))
    \o When(comparison.regression.highSeverityIssues > th.maxHighSeverityIncrease,
            HighSeverityIncreased(comparison.regression.highSeverityIssues,
                                  th.maxHighSeverityIncrease))
    \o When(comparison.regression.totalIssues > th.maxTotalIssuesIncrease,
            TotalIssuesIncreased(comparison.regression.totalIssues,
                                 th.maxTotalIssuesIncrease))

warnings(comparison, th) ==
    When(/\ Above[comparison.regression.averageScore, 0]
         /\ AtMost(comparison.regression.averageScore, th.maxScoreRegression),
         SlightlyRegressed)
    \o When(Len(comparison.regression.filesWithRegressions) > 0,
            FilesRegressed(Len(comparison.regression.filesWithRegressions)))

hasImprovements(comparison, th) ==
    Above[comparison.improvement.averageScore, th.minScoreImprovement]

recommendations(comparison, th) ==
    When(hasImprovements(comparison, th), GreatImprovement)
    \o When(Len(comparison.regression.filesWithRegressions) > 0, ReviewFiles)
    \o When(Len(comparison.improvement.filesWithImprovements) > 0,
            FilesImproved(Len(comparison.improvement.filesWithImprovements)))

statusIgnoringWarnings(critical, warned) ==
    IF Len(critical) > 0 THEN "fail" ELSE "pass"

\* let status = 'pass'; if (hasRegressions) ... else if (warnings.length > 0) ...
status(critical, warned) ==
    IF Len(critical) > 0 THEN "fail"
    ELSE IF Len(warned) > 0 THEN "warning"
    ELSE "pass"

scoreWarningWeight(critical, warned) ==
    IF Len(critical) > 0 THEN MathMax(0, 100 - (Len(critical) * 10))
    ELSE IF Len(warned) > 0 THEN MathMax(50, 100 - (Len(warned) * 10))
    ELSE 100

\* let score = 100; if (hasRegressions) ... else if (warnings.length > 0) ...
score(critical, warned) ==
    IF Len(critical) > 0 THEN MathMax(0, 100 - (Len(critical) * 20))
    ELSE IF Len(warned) > 0 THEN MathMax(50, 100 - (Len(warned) * 10))
    ELSE 100

generateStatusMessage(st) ==
    CASE st = "pass" ->
            "Performance check passed - no significant regressions detected"
      [] st = "warning" ->
            "Performance check passed with warnings - minor regressions detected"
      [] st = "fail" ->
            "Performance check failed - significant regressions detected"
      [] OTHER -> "Unknown status"

noBaselineReportPassing ==
    [hasRegressions |-> FALSE,
     hasImprovements |-> FALSE,
     criticalIssues |-> <<>>,
     warnings |-> <<>>,
     recommendations |-> <<CreateBaselineFirst>>,
     summary |-> [status |-> "pass",
                  message |-> "No baseline available for comparison",
                  score |-> 100],
     details |->
        [regression |-> [totalIssues |-> 0, highSeverityIssues |-> 0,
                         averageScore |-> NumZero, filesWithRegressions |-> <<>>],
         improvement |-> [totalIssues |-> 0, highSeverityIssues |-> 0,
                          averageScore |-> NumZero, filesWithImprovements |-> <<>>],
         unchanged |-> [totalFiles |-> 0, files |-> <<>>]]]

\* The report returned when compareWithBaseline gives null.
noBaselineReport ==
    [hasRegressions |-> FALSE,
     hasImprovements |-> FALSE,
     criticalIssues |-> <<NoBaselineFound>>,
     warnings |-> <<>>,
     recommendations |-> <<CreateBaselineFirst>>,
     summary |-> [status |-> "warning",
                  message |-> "No baseline available for comparison",
                  score |-> 0],
     details |->
        [regression |-> [totalIssues |-> 0, highSeverityIssues |-> 0,
                         averageScore |-> NumZero, filesWithRegressions |-> <<>>],
         improvement |-> [totalIssues |-> 0, highSeverityIssues |-> 0,
                          averageScore |-> NumZero, filesWithImprovements |-> <<>>],
         unchanged |-> [totalFiles |-> 0, files |-> <<>>]]]

generateAlertReport(dir, th, currentSnapshot, baselineBranch) ==
    LET comparison == compareWithBaseline(dir, currentSnapshot, baselineBranch)
    IN  IF comparison = Null THEN noBaselineReport
        ELSE LET critical == criticalIssues(comparison, th)
                 warned == warnings(comparison, th)
             IN  [hasRegressions |-> Len(critical) > 0,
                  hasImprovements |-> hasImprovements(comparison, th),
                  criticalIssues |-> critical,
                  warnings |-> warned,
                  recommendations |-> recommendations(comparison, th),
                  summary |-> [status |-> status(critical, warned),
                               message |-> generateStatusMessage(status(critical, warned)),
                               score |-> score(critical, warned)],
                  details |-> [regression |-> comparison.regression,
                               improvement |-> comparison.improvement,
                               unchanged |-> comparison.unchanged]]

-----------------------------------------------------------------------------
(* The alert specification: one PRAlertSystem, its thresholds fixed by the  *)
(* constructor, reporting against the baseline of the branch               *)

\* The snapshots reported on: one analysed file, a.ts, or none.
AlertSnapshots ==
    {s \in Snapshots :
        \A i \in 1..Len(s.fileAnalysis) :
            /\ s.fileAnalysis[i].filePath = "a.ts"
            /\ s.fileAnalysis[i].score \in {Num(60000), Num(80000)}}

InitAlert ==
    /\ thresholds \in ThresholdSettings
    /\ baselineDir = [b \in Branches |-> Absent]
    /\ result = Idle
    /\ snapshotsDir = [id \in SnapshotIds |-> Absent]
    /\ now = 0
    /\ issues = EmptyBag
    /\ totalLines = 1
    /\ analyzerScore = <<>>
    /\ quickScore = <<>>
    /\ bulkScore = <<>>
    /\ SideIdle

\* The awaited call is kept with its arguments.
GenerateAlertReport(snapshot, branch) ==
    /\ result = Idle
    /\ result' = [op |-> "generateAlertReport",
                  currentSnapshot |-> snapshot,
                  baselineBranch |-> branch,
                  value |-> generateAlertReport(baselineDir, thresholds, snapshot, branch)]
    /\ UNCHANGED <<baselineDir, scoreVars, sideVars, snapshotsDir, now, thresholds>>

NextAlert ==
    \/ \E s \in AlertSnapshots, b \in Branches : SaveBaseline(s, b)
    \/ \E s \in AlertSnapshots, b \in Branches : GenerateAlertReport(s, b)
    \/ Return

SpecAlert == InitAlert /\ [][NextAlert]_vars

-----------------------------------------------------------------------------
(* PerformanceSnapshotManager: the snapshot files *)

MaxStored == 2

StoreBranches == {"main", "develop"}

MaxAges == 0..MaxTime

\* A FileAnalysis of the analyzer: a.ts, 200 lines, two medium and two low
\* findings.
Analyses ==
    {[filePath |-> "a.ts",
      summary |-> calculateSummary(SetToBag({"medium", "low"}) (+) SetToBag({"medium", "low"})),
      score |-> calculateScore(
                    calculateSummary(SetToBag({"medium", "low"}) (+) SetToBag({"medium", "low"})),
                    200)]}

\* The lists handed to createSnapshot: no analysis or one.
AnalysisLists == {<<>>} \cup {<<a>> : a \in Analyses}

RECURSIVE Sum(_)
\* values.reduce((sum, value) => sum + value, 0)
Sum(values) ==
    IF values = <<>> THEN 0
    ELSE Sum(SubSeq(values, 1, Len(values) - 1)) + values[Len(values)]

\* sum / totalFiles for a sum of integers that are not negative: 0 / 0 is
\* NaN; the quotient is written as a literal, which is exact for a list of
\* one analysis.
Mean(sum, totalFiles) ==
    IF totalFiles = 0 THEN NaN ELSE Num((sum * Thousandths) \div totalFiles)

\* createSnapshot up to the call of saveSnapshot; time is Date.now(), suffix
\* the random part of the id.  commit and environment are left out.
createSnapshot(analyses, branch, time, suffix) ==
    LET totalFiles == Len(analyses)
        Each(Field(_)) == [i \in 1..Len(analyses) |-> Field(analyses[i])]
        TotalIssuesOf(a) == a.summary.totalIssues
        HighOf(a) == a.summary.highSeverity
        MediumOf(a) == a.summary.mediumSeverity
        LowOf(a) == a.summary.lowSeverity
        TotalOf(a) == a.score.total
        PerformanceOf(a) == a.score.breakdown.performance
        MemoryOf(a) == a.score.breakdown.memoryLeaks
        QualityOf(a) == a.score.breakdown.codeQuality
    IN  [id |-> generateSnapshotId(time, suffix),
         timestamp |-> time,
         branch |-> branch,
         metrics |-> [totalFiles |-> totalFiles,
                      totalIssues |-> Sum(Each(TotalIssuesOf)),
                      highSeverityIssues |-> Sum(Each(HighOf)),
                      mediumSeverityIssues |-> Sum(Each(MediumOf)),
                      lowSeverityIssues |-> Sum(Each(LowOf)),
                      averageScore |-> Mean(Sum(Each(TotalOf)), totalFiles),
                      performanceScore |-> Mean(Sum(Each(PerformanceOf)), totalFiles),
                      memoryScore |-> Mean(Sum(Each(MemoryOf)), totalFiles),
                      codeQualityScore |-> Mean(Sum(Each(QualityOf)), totalFiles)],
         fileAnalysis |-> [i \in 1..Len(analyses) |->
                              [filePath |-> analyses[i].filePath,
                               score |-> Num(analyses[i].score.total * Thousandths)]]]

\* fs.writeFileSync of <id>.json
saveSnapshot(dir, snapshot) == [dir EXCEPT ![snapshot.id] = JsonStringify(snapshot)]

loadSnapshotUnchecked(dir, snapshotId) == dir[snapshotId]

\* fs.existsSync + JSON.parse(fs.readFileSync(...))
loadSnapshot(dir, snapshotId) ==
    IF dir[snapshotId] = Absent THEN Null ELSE dir[snapshotId]

\* The files <id>.json of the directory.
StoredIds(dir) == {f \in DOMAIN dir : dir[f] # Absent}

\* The name of a file of the directory: <prefix><id><extension>.
FileName(prefix, id, extension) == [prefix |-> prefix, id |-> id, extension |-> extension]

\* The content of a file that JSON.parse rejects.
Unparsable == [unparsable |-> TRUE]

\* fs.writeFileSync(path.join(snapshotsDir, name), content) for a file that is
\* not a snapshot file.
writeFileSync(others, name, content) ==
    {f \in others : f.name # name} \cup {[name |-> name, content |-> content]}

\* The other files listSnapshots takes: file.endsWith('.json') &&
\* !file.startsWith('baseline-'), read and parsed without an exception.
ParsedFiles(others) ==
    {f \in others : /\ f.name.extension = ".json"
                    /\ f.name.prefix # "baseline-"
                    /\ f.content # Unparsable}

\* listSnapshots: the parsed documents of the directory sorted with
\* (a, b) => b.timestamp - a.timestamp, newest first.  The order in which
\* readdirSync gives the files, kept by the sort among equal timestamps, is
\* not fixed.  A document without timestamp makes the comparator give NaN:
\* the order of the sorted array is then implementation-defined.
Listings(dir, others) ==
    LET names == {FileName("", id, ".json") : id \in StoredIds(dir)}
                     \cup {f.name : f \in ParsedFiles(others)}
        Content(n) == IF n.prefix = "" THEN dir[n.id]
                      ELSE (CHOOSE f \in others : f.name = n).content
        consistent == \A n \in names : "timestamp" \in DOMAIN Content(n)
    IN  {[i \in DOMAIN order |-> Content(order[i])] :
            order \in {o \in [1..Cardinality(names) -> names] :
                         /\ \A i, j \in DOMAIN o : o[i] = o[j] => i = j
                         /\ consistent =>
                                \A i, j \in DOMAIN o :
                                    i < j => Content(o[i]).timestamp >= Content(o[j]).timestamp}}

cleanupOldSnapshotsInclusive(dir, time, maxAge) ==
    LET cutoff == time - maxAge
        expired == {dir[f].id : f \in {g \in StoredIds(dir) : dir[g].timestamp <= cutoff}}
    IN  [f \in DOMAIN dir |-> IF f \in expired THEN Absent ELSE dir[f]]

\* cleanupOldSnapshots: unlink <snapshot.id>.json of every listed snapshot
\* older than the cutoff; time is Date.now().  A listed document without
\* timestamp is never older than the cutoff (undefined < cutoff is false).
cleanupOldSnapshots(dir, time, maxAge) ==
    LET cutoff == time - maxAge
        expired == {dir[f].id : f \in {g \in StoredIds(dir) : dir[g].timestamp < cutoff}}
    IN  [f \in DOMAIN dir |-> IF f \in expired THEN Absent ELSE dir[f]]

-----------------------------------------------------------------------------
(* The store specification: calls on one PerformanceSnapshotManager, each   *)
(* awaited before the next one is made, while the clock advances            *)

\* Snapshots a caller holds and hands to saveSnapshot, saveBaseline and
\* compareWithBaseline: made by createSnapshot at time 0.
StoreSnapshots ==
    {createSnapshot(l, "main", 0, CHOOSE r \in RandomSuffixes : TRUE) : l \in AnalysisLists}

InitStore ==
    /\ snapshotsDir = [id \in SnapshotIds |-> Absent]
    /\ baselineDir = [b \in StoreBranches |-> Absent]
    /\ now = 0
    /\ result = Idle
    /\ thresholds = DefaultThresholds
    /\ issues = EmptyBag
    /\ totalLines = 1
    /\ analyzerScore = <<>>
    /\ quickScore = <<>>
    /\ bulkScore = <<>>
    /\ SideIdle

\* The directory takes the file <id>.json: it is there already or the
\* directory holds fewer than MaxStored files.
Room(id) ==
    snapshotsDir[id] # Absent \/ Cardinality(StoredIds(snapshotsDir)) < MaxStored

CreateSnapshot(analyses, branch, suffix) ==
    /\ result = Idle
    /\ Room(generateSnapshotId(now, suffix))
    /\ snapshotsDir' = saveSnapshot(snapshotsDir, createSnapshot(analyses, branch, now, suffix))
    /\ result' = [op |-> "createSnapshot",
                  value |-> createSnapshot(analyses, branch, now, suffix)]
    /\ UNCHANGED <<baselineDir, now, thresholds, scoreVars, sideVars>>

SaveSnapshot(snapshot) ==
    /\ result = Idle
    /\ Room(snapshot.id)
    /\ snapshotsDir' = saveSnapshot(snapshotsDir, snapshot)
    /\ result' = [op |-> "saveSnapshot", snapshot |-> snapshot, value |-> Void]
    /\ UNCHANGED <<baselineDir, now, thresholds, scoreVars, sideVars>>

LoadSnapshot(snapshotId) ==
    /\ result = Idle
    /\ result' = [op |-> "loadSnapshot", snapshotId |-> snapshotId,
                  value |-> loadSnapshot(snapshotsDir, snapshotId)]
    /\ UNCHANGED <<snapshotsDir, baselineDir, now, thresholds, scoreVars, sideVars>>

ListSnapshots ==
    /\ result = Idle
    /\ \E listing \in Listings(snapshotsDir, otherFiles) :
          result' = [op |-> "listSnapshots", value |-> listing]
    /\ UNCHANGED <<snapshotsDir, baselineDir, now, thresholds, scoreVars, sideVars>>

CleanupOldSnapshots(maxAge) ==
    /\ result = Idle
    /\ snapshotsDir' = cleanupOldSnapshots(snapshotsDir, now, maxAge)
    /\ result' = [op |-> "cleanupOldSnapshots", maxAge |-> maxAge, value |-> Void]
    /\ UNCHANGED <<baselineDir, now, thresholds, scoreVars, sideVars>>

\* Time passes between two calls.
Tick ==
    /\ result = Idle
    /\ now < MaxTime
    /\ now' = now + 1
    /\ UNCHANGED <<snapshotsDir, baselineDir, result, thresholds, scoreVars, sideVars>>

NextStore ==
    \/ \E l \in AnalysisLists, r \in RandomSuffixes : CreateSnapshot(l, "main", r)
    \/ \E s \in StoreSnapshots : SaveSnapshot(s)
    \/ \E id \in SnapshotIds : LoadSnapshot(id)
    \/ \E s \in StoreSnapshots, b \in StoreBranches : SaveBaseline(s, b)
    \/ \E b \in StoreBranches : LoadBaseline(b)
    \/ \E s \in StoreSnapshots, b \in StoreBranches : CompareWithBaseline(s, b)
    \/ \E s \in StoreSnapshots, b \in StoreBranches : GenerateAlertReport(s, b)
    \/ ListSnapshots
    \/ \E maxAge \in MaxAges : CleanupOldSnapshots(maxAge)
    \/ Tick
    \/ Return

SpecStore == InitStore /\ [][NextStore]_vars

-----------------------------------------------------------------------------
(* CIPerformanceChecker: one run of the CI check on a working tree *)

MaxOthers == 3

\* The same file after a change: two high, one medium and one low finding.
LowerAnalysis ==
    [filePath |-> "a.ts",
     summary |-> calculateSummary(SetToBag({"high", "medium", "low"}) (+) SetToBag({"high"})),
     score |-> calculateScore(
                   calculateSummary(SetToBag({"high", "medium", "low"}) (+) SetToBag({"high"})),
                   200)]

\* analyzeFile throws on this file.
Unanalyzable == [unanalyzable |-> TRUE]

\* What analyzeFile makes of each file of the working tree.
WorkingTrees ==
    {[path \in {"a.ts"} |-> a] : a \in Analyses \cup {LowerAnalysis, Unanalyzable}}

\* The matches of the four glob patterns, one after the other.
GlobMatches == {<<>>, <<"a.ts">>}

RECURSIVE Unique(_)
\* [...new Set(files)]: the first occurrence of each file, in order
Unique(files) ==
    IF files = <<>> THEN <<>>
    ELSE LET front == Unique(SubSeq(files, 1, Len(files) - 1))
             last == files[Len(files)]
         IN  IF \E i \in DOMAIN front : front[i] = last THEN front
             ELSE Append(front, last)

findReactFiles(matches) == Unique(matches)

RECURSIVE analyzeEach(_, _)
\* the loop of analyzeCodebase: a file whose analysis throws is skipped
analyzeEach(files, tree) ==
    IF files = <<>> THEN <<>>
    ELSE LET front == analyzeEach(SubSeq(files, 1, Len(files) - 1), tree)
             analysis == tree[files[Len(files)]]
         IN  IF analysis = Unanalyzable THEN front ELSE Append(front, analysis)

analyzeCodebase(matches, tree) == analyzeEach(findReactFiles(matches), tree)

\* The configurations of a run: --output and --no-fail-on-regression, with
\* the default baseline branch and thresholds.
OutputFormats == {<<"console">>, <<"console", "json", "github-comment">>}

CIConfigs ==
    [baselineBranch : {"main"},
     thresholds : {DefaultThresholds},
     outputFormats : OutputFormats,
     failOnRegression : BOOLEAN]

\* generateJSONReport: JSON.stringify(report, null, 2) as the document
\* JSON.parse gives back.
generateJSONReport(report) ==
    [report EXCEPT
        !.details.regression.averageScore = StringifyNumber(@),
        !.details.improvement.averageScore = StringifyNumber(@)]

\* generateGitHubComment: of the text, the status and the score it prints.
generateGitHubComment(report) ==
    [status |-> report.summary.status, score |-> report.summary.score]

RECURSIVE outputResults(_, _, _, _)
\* the loop over config.outputFormats; 'console' only prints
outputResults(others, formats, report, snapshot) ==
    IF formats = <<>> THEN others
    ELSE LET before == outputResults(others, SubSeq(formats, 1, Len(formats) - 1),
                                     report, snapshot)
             format == formats[Len(formats)]
         IN  CASE format = "json" ->
                    writeFileSync(before, FileName("report-", snapshot.id, ".json"),
                                  generateJSONReport(report))
               [] format = "github-comment" ->
                    writeFileSync(before, FileName("comment-", snapshot.id, ".md"),
                                  generateGitHubComment(report))
               [] OTHER -> before

shouldBlockPR(report) == report.summary.status = "fail"

handleCIActionsAlwaysFailing(report, config) ==
    IF shouldBlockPR(report) THEN 1 ELSE 0

\* handleCIActions: the exit code of the process, 1 from process.exit(1) and
\* 0 when run() comes to its end.  The lines appended to the file named by
\* GITHUB_OUTPUT are left out.
handleCIActions(report, config) ==
    IF shouldBlockPR(report) /\ config.failOnRegression THEN 1 ELSE 0

-----------------------------------------------------------------------------
(* The CI specification: runs of the CI check and calls on a                *)
(* PerformanceSnapshotManager over the same directory, one after the other  *)

\* A snapshot file an interrupted writer left truncated before the first call.
TruncatedFile ==
    [name |-> FileName("", generateSnapshotId(-1, CHOOSE r \in RandomSuffixes : TRUE), ".json"),
     content |-> Unparsable]

\* The lists handed to createSnapshot by a caller: the same analysis twice.
CallerLists == {<<a, a>> : a \in Analyses}

\* The random part of the ids made here.
CISuffix == CHOOSE r \in RandomSuffixes : TRUE

\* The snapshot a caller holds and hands to saveSnapshot and saveBaseline.
CallerSnapshots == {s \in StoreSnapshots : s.metrics.totalFiles > 0}

InitCI ==
    /\ snapshotsDir = [id \in SnapshotIds |-> Absent]
    /\ baselineDir = [b \in Branches |-> Absent]
    /\ otherFiles \in {{}, {TruncatedFile}}
    /\ now = 0
    /\ result = Idle
    /\ thresholds = DefaultThresholds
    /\ issues = EmptyBag
    /\ totalLines = 1
    /\ analyzerScore = <<>>
    /\ quickScore = <<>>
    /\ bulkScore = <<>>
    /\ calls = <<>>
    /\ memoCache = <<>>
    /\ invocations = <<>>
    /\ module = <<>>
    /\ loads = 0
    /\ getters = <<>>

\* run(): the whole handler.  The branch of the working tree is main; no
\* call of it throws.
RunCI(matches, tree, config, suffix) ==
    /\ result = Idle
    /\ LET analyses == analyzeCodebase(matches, tree)
           snapshot == createSnapshot(analyses, "main", now, suffix)
           report == generateAlertReport(baselineDir, config.thresholds, snapshot,
                                         config.baselineBranch)
           written == outputResults(otherFiles, config.outputFormats, report, snapshot)
       IN  IF Len(analyses) = 0
           THEN /\ result' = [op |-> "run", failOnRegression |-> config.failOnRegression,
                              analyzed |-> Len(analyses),
                              snapshot |-> Null, report |-> Null, exitCode |-> 0]
                /\ UNCHANGED <<snapshotsDir, otherFiles>>
           ELSE /\ Room(snapshot.id)
                /\ Cardinality(written) <= MaxOthers
                /\ snapshotsDir' = saveSnapshot(snapshotsDir, snapshot)
                /\ otherFiles' = written
                /\ result' = [op |-> "run", failOnRegression |-> config.failOnRegression,
                              analyzed |-> Len(analyses),
                              snapshot |-> snapshot, report |-> report,
                              exitCode |-> handleCIActions(report, config)]
    /\ UNCHANGED <<baselineDir, now, thresholds, scoreVars,
                   calls, memoCache, invocations, module, loads, getters>>

NextCI ==
    \/ \E m \in GlobMatches, t \in WorkingTrees, c \in CIConfigs : RunCI(m, t, c, CISuffix)
    \/ \E l \in CallerLists : CreateSnapshot(l, "main", CISuffix)
    \/ \E s \in CallerSnapshots : SaveSnapshot(s)
    \/ \E s \in CallerSnapshots, b \in Branches : SaveBaseline(s, b)
    \/ ListSnapshots
    \/ \E maxAge \in MaxAges : CleanupOldSnapshots(maxAge)
    \/ Tick
    \/ Return

SpecCI == InitCI /\ [][NextCI]_vars

-----------------------------------------------------------------------------
(* The race specification: async calls on one PerformanceSnapshotManager    *)
(* made without awaiting the earlier ones.  An async function runs up to    *)
(* its first await when it is called; saveBaseline has no await, and         *)
(* createSnapshot awaits saveSnapshot after saveSnapshot has written.       *)

MaxCalls == 3

Callers == 1..MaxCalls

\* A call that has not been made.
Pending == [pc |-> "pending", op |-> "none", snapshot |-> Null, branch |-> "", order |-> 0]

\* The calls made so far.
Made == {c \in DOMAIN calls : calls[c].pc # "pending"}

InitRace ==
    /\ calls = [c \in Callers |-> Pending]
    /\ snapshotsDir = [id \in SnapshotIds |-> Absent]
    /\ baselineDir = [b \in StoreBranches |-> Absent]
    /\ now = 0
    /\ result = Idle
    /\ thresholds = DefaultThresholds
    /\ issues = EmptyBag
    /\ totalLines = 1
    /\ analyzerScore = <<>>
    /\ quickScore = <<>>
    /\ bulkScore = <<>>
    /\ otherFiles = {}
    /\ memoCache = <<>>
    /\ invocations = <<>>
    /\ module = <<>>
    /\ loads = 0
    /\ getters = <<>>

CallSaveBaselineEveryBranch(c, snapshot, branch) ==
    /\ calls[c].pc = "pending"
    /\ baselineDir' = [b \in DOMAIN baselineDir |-> JsonStringify(snapshot)]
    /\ calls' = [calls EXCEPT ![c] = [pc |-> "resolved", op |-> "saveBaseline",
                                      snapshot |-> snapshot, branch |-> branch,
                                      order |-> Cardinality(Made) + 1]]
    /\ UNCHANGED <<snapshotsDir, result, now, thresholds, scoreVars,
                   otherFiles, memoCache, invocations, module, loads, getters>>

\* saveBaseline(snapshot, branch) is called: the body runs to its end, the
\* promise is resolved.  order is the place of the call among the calls made.
CallSaveBaseline(c, snapshot, branch) ==
    /\ calls[c].pc = "pending"
    /\ baselineDir' = saveBaseline(baselineDir, snapshot, branch)
    /\ calls' = [calls EXCEPT ![c] = [pc |-> "resolved", op |-> "saveBaseline",
                                      snapshot |-> snapshot, branch |-> branch,
                                      order |-> Cardinality(Made) + 1]]
    /\ UNCHANGED <<snapshotsDir, result, now, thresholds, scoreVars,
                   otherFiles, memoCache, invocations, module, loads, getters>>

\* createSnapshot(analyses, branch, commit) is called: the snapshot is built,
\* saveSnapshot writes it, and the call awaits the promise of saveSnapshot.
CallCreateSnapshot(c, analyses, branch, suffix) ==
    /\ calls[c].pc = "pending"
    /\ snapshotsDir' = saveSnapshot(snapshotsDir, createSnapshot(analyses, branch, now, suffix))
    /\ calls' = [calls EXCEPT ![c] = [pc |-> "saving", op |-> "createSnapshot",
                                      snapshot |-> createSnapshot(analyses, branch, now, suffix),
                                      branch |-> branch,
                                      order |-> Cardinality(Made) + 1]]
    /\ UNCHANGED <<baselineDir, result, now, thresholds, scoreVars,
                   otherFiles, memoCache, invocations, module, loads, getters>>

\* createSnapshot goes on after its await and returns the snapshot.
ResumeCreateSnapshot(c) ==
    /\ calls[c].pc = "saving"
    /\ calls' = [calls EXCEPT ![c].pc = "resolved"]
    /\ UNCHANGED <<baselineDir, snapshotsDir, result, now, thresholds, scoreVars,
                   otherFiles, memoCache, invocations, module, loads, getters>>

NextRace ==
    \/ \E c \in Callers, s \in StoreSnapshots, b \in StoreBranches : CallSaveBaseline(c, s, b)
    \/ \E c \in Callers, l \in AnalysisLists, r \in RandomSuffixes :
          CallCreateSnapshot(c, l, "main", r)
    \/ \E c \in Callers : ResumeCreateSnapshot(c)

SpecRace == InitRace /\ [][NextRace]_vars

-----------------------------------------------------------------------------
(* memoize, clearMemoCache and getCacheStats: one memoCache per process *)

MaxArg == 2

\* The functions wrapped with memoize(fn), and the one wrapped with
\* memoize(fn, keyGenerator).
Wrapped == {"increment", "double", "square"}

ArgLists == {<<x>> : x \in 0..MaxArg}

\* fn(...args) of the wrapped function
Apply(fn, args) ==
    CASE fn = "increment" -> args[1] + 1
      [] fn = "double" -> 2 * args[1]
      [] fn = "square" -> args[1] * args[1]

RECURSIVE Join(_)
\* the elements of an array of integers as JSON.stringify writes them
Join(args) ==
    IF args = <<>> THEN ""
    ELSE IF Len(args) = 1 THEN ToString(args[1])
    ELSE Join(SubSeq(args, 1, Len(args) - 1)) \o "," \o ToString(args[Len(args)])

\* JSON.stringify(args)
StringifyArgs(args) == "[" \o Join(args) \o "]"

\* The keyGenerator square is wrapped with: (x) => `square:${x}`
keyGenerator(args) == "square:" \o ToString(args[1])

\* const key = keyGenerator ? keyGenerator(...args) : JSON.stringify(args)
memoKey(fn, args) ==
    IF fn = "square" THEN keyGenerator(args) ELSE StringifyArgs(args)

MemoKeys == {memoKey(fn, args) : fn \in Wrapped, args \in ArgLists}

InitMemo ==
    /\ memoCache = <<>>
    /\ invocations = [fn \in Wrapped, key \in MemoKeys |-> 0]
    /\ result = Idle
    /\ snapshotsDir = [id \in SnapshotIds |-> Absent]
    /\ baselineDir = [b \in Branches |-> Absent]
    /\ now = 0
    /\ thresholds = DefaultThresholds
    /\ issues = EmptyBag
    /\ totalLines = 1
    /\ analyzerScore = <<>>
    /\ quickScore = <<>>
    /\ bulkScore = <<>>
    /\ otherFiles = {}
    /\ calls = <<>>
    /\ module = <<>>
    /\ loads = 0
    /\ getters = <<>>

\* A call of the function memoize(fn) returned.
Memoized(fn, args) ==
    /\ result = Idle
    /\ LET key == memoKey(fn, args)
       IN  IF key \in DOMAIN memoCache
           THEN /\ result' = [op |-> "memoized", fn |-> fn, args |-> args,
                              value |-> memoCache[key]]
                /\ UNCHANGED <<memoCache, invocations>>
           ELSE /\ result' = [op |-> "memoized", fn |-> fn, args |-> args,
                              value |-> Apply(fn, args)]
                /\ memoCache' = (key :> Apply(fn, args)) @@ memoCache
                /\ invocations' = [invocations EXCEPT ![fn, key] = @ + 1]
    /\ UNCHANGED <<baselineDir, snapshotsDir, now, thresholds, scoreVars,
                   otherFiles, calls, module, loads, getters>>

\* clearMemoCache(); the invocations are counted from the last clear on.
ClearMemoCache ==
    /\ result = Idle
    /\ memoCache' = <<>>
    /\ invocations' = [fn \in Wrapped, key \in MemoKeys |-> 0]
    /\ result' = [op |-> "clearMemoCache", value |-> Void]
    /\ UNCHANGED <<baselineDir, snapshotsDir, now, thresholds, scoreVars,
                   otherFiles, calls, module, loads, getters>>

GetCacheStats ==
    /\ result = Idle
    /\ result' = [op |-> "getCacheStats",
                  value |-> [size |-> Cardinality(DOMAIN memoCache),
                             keys |-> DOMAIN memoCache]]
    /\ UNCHANGED <<memoCache, invocations, baselineDir, snapshotsDir, now, thresholds,
                   scoreVars, otherFiles, calls, module, loads, getters>>

\* The caller has taken the value.
ReturnMemo ==
    /\ result # Idle
    /\ result' = Idle
    /\ UNCHANGED <<memoCache, invocations, baselineDir, snapshotsDir, now, thresholds,
                   scoreVars, otherFiles, calls, module, loads, getters>>

NextMemo ==
    \/ \E fn \in Wrapped, args \in ArgLists : Memoized(fn, args)
    \/ ClearMemoCache
    \/ GetCacheStats
    \/ ReturnMemo

SpecMemo == InitMemo /\ [][NextMemo]_vars

-----------------------------------------------------------------------------
(* LazyLoader: get() calls on one loader, each running up to its await and  *)
(* going on when the promise of loader() is resolved                        *)

MaxGetters == 2

MaxResets == 1

Getters == 1..MaxGetters

\* The module object the n-th loader() call after the e-th reset() resolves to.
Instance(e, n) == [module |-> <<e, n>>]

\* No get() call made by this caller.
NoCall == [pc |-> "idle", value |-> Null]

InitLazy ==
    /\ module = Null
    /\ loads = [resets |-> 0, sinceReset |-> 0]
    /\ getters = [g \in Getters |-> NoCall]
    /\ result = Idle
    /\ snapshotsDir = [id \in SnapshotIds |-> Absent]
    /\ baselineDir = [b \in Branches |-> Absent]
    /\ now = 0
    /\ thresholds = DefaultThresholds
    /\ issues = EmptyBag
    /\ totalLines = 1
    /\ analyzerScore = <<>>
    /\ quickScore = <<>>
    /\ bulkScore = <<>>
    /\ otherFiles = {}
    /\ calls = <<>>
    /\ memoCache = <<>>
    /\ invocations = <<>>

\* get() is called: if (!this.module) the loader is invoked and the call
\* awaits its promise; otherwise the call returns this.module.
Get(g) ==
    /\ getters[g].pc = "idle"
    /\ IF module = Null
       THEN /\ loads' = [loads EXCEPT !.sinceReset = @ + 1]
            /\ getters' = [getters EXCEPT ![g] =
                              [pc |-> "awaiting",
                               value |-> Instance(loads.resets, loads.sinceReset + 1)]]
       ELSE /\ getters' = [getters EXCEPT ![g] = [pc |-> "resolved", value |-> module]]
            /\ UNCHANGED loads
    /\ UNCHANGED <<module, result, baselineDir, snapshotsDir, now, thresholds, scoreVars,
                   otherFiles, calls, memoCache, invocations>>

\* The promise of loader() is resolved: this.module = <loaded>; return
\* this.module.
Loaded(g) ==
    /\ getters[g].pc = "awaiting"
    /\ module' = getters[g].value
    /\ getters' = [getters EXCEPT ![g].pc = "resolved"]
    /\ UNCHANGED <<loads, result, baselineDir, snapshotsDir, now, thresholds, scoreVars,
                   otherFiles, calls, memoCache, invocations>>

\* The caller of get() has taken the module.
Taken(g) ==
    /\ getters[g].pc = "resolved"
    /\ getters' = [getters EXCEPT ![g] = NoCall]
    /\ UNCHANGED <<module, loads, result, baselineDir, snapshotsDir, now, thresholds,
                   scoreVars, otherFiles, calls, memoCache, invocations>>

\* reset(): this.module = null
Reset ==
    /\ loads.resets < MaxResets
    /\ module' = Null
    /\ loads' = [resets |-> loads.resets + 1, sinceReset |-> 0]
    /\ UNCHANGED <<getters, result, baselineDir, snapshotsDir, now, thresholds, scoreVars,
                   otherFiles, calls, memoCache, invocations>>

NextLazy ==
    \/ \E g \in Getters : Get(g)
    \/ \E g \in Getters : Loaded(g)
    \/ \E g \in Getters : Taken(g)
    \/ Reset

SpecLazy == InitLazy /\ [][NextLazy]_vars

-----------------------------------------------------------------------------
(* Properties of the score calculators, checked under SpecScore *)

nHigh == CopiesIn("high", issues)
nMedium == CopiesIn("medium", issues)
nLow == CopiesIn("low", issues)

Clamp(x, lo, hi) == IF x < lo THEN lo ELSE IF x > hi THEN hi ELSE x

ExpectedSizeBonus ==
    CASE totalLines < 100 -> 5
      [] totalLines > 500 -> 0 - 10
      [] OTHER -> 0

ExpectedCleanBonus == IF nHigh + nMedium + nLow = 0 THEN 10 ELSE 0

ExpectedTotal ==
    Clamp(100 - (15 * nHigh + 8 * nMedium + 2 * nLow)
              + ExpectedCleanBonus + ExpectedSizeBonus, 0, 100)

\* C1: for all issue counts and every totalLines the total is
\* clamp(100 - (15*high + 8*medium + 2*low) + cleanBonus + sizeBonus, 0, 100),
\* and the full analyzer, the quick checker and the bulk checker all compute
\* this same total.
C1_TotalFormula ==
    /\ analyzerScore.total = ExpectedTotal
    /\ quickScore.total = ExpectedTotal
    /\ bulkScore.total = ExpectedTotal

\* A file over 500 lines with findings of all three severities whose total
\* lies strictly between the clamps.
C1_Witness ==
    /\ nHigh > 0 /\ nMedium > 0 /\ nLow > 0
    /\ totalLines > 500
    /\ analyzerScore.total > 0 /\ analyzerScore.total < 100
    /\ quickScore.total = analyzerScore.total
    /\ bulkScore.total = analyzerScore.total

CutPoints == <<90, 85, 80, 75, 70, 65, 60, 55, 50, 45, 40, 35>>

Letters == <<"A+", "A", "A-", "B+", "B", "B-", "C+", "C", "C-", "D+", "D", "D-">>

\* The letter of the highest cut point that t reaches, F when it reaches none.
ExpectedGrade(t) ==
    IF \E i \in 1..Len(CutPoints) : t >= CutPoints[i]
    THEN Letters[CHOOSE i \in 1..Len(CutPoints) :
                    /\ t >= CutPoints[i]
                    /\ \A j \in 1..Len(CutPoints) : t >= CutPoints[j] => j >= i]
    ELSE "F"

C3_Original ==
    issues = EmptyBag =>
        /\ analyzerScore.total = MathMin(100, 100 + ExpectedSizeBonus)
        /\ analyzerScore.grade = "A+"

\* C3 (amended): with no issues the total is 100 + 10 + sizeBonus clamped to
\* 100, which is 100 for every totalLines, and the grade is A+.
C3_CleanFile ==
    issues = EmptyBag =>
        /\ analyzerScore.total = MathMin(100, 100 + 10 + ExpectedSizeBonus)
        /\ analyzerScore.total = 100
        /\ analyzerScore.grade = "A+"

\* A clean file of more than 500 lines: the size penalty is absorbed by the
\* clean-code bonus.
C3_Witness ==
    /\ issues = EmptyBag
    /\ totalLines > 500
    /\ analyzerScore.total = 100

\* One more finding of one severity in the same file.
OneMoreIssue ==
    /\ totalLines' = totalLines
    /\ \E sev \in Severity : issues' = issues (+) SetToBag({sev})

\* C4: for fixed totalLines, raising any one of high, medium, low never
\* raises the total (also on the step from zero issues).
C4_Monotone ==
    [][OneMoreIssue => analyzerScore'.total <= analyzerScore.total]_vars

\* The first finding in a file over 500 lines: the clean-code bonus is lost
\* and the total has dropped below 100.
C4_Witness ==
    /\ BagCardinality(issues) = 1
    /\ totalLines > 500
    /\ analyzerScore.total < 100

\* C5 as stated: one more finding strictly decreases the total whenever the
\* total before is above 0.
C5_Original ==
    [][(OneMoreIssue /\ analyzerScore.total > 0)
          => analyzerScore'.total < analyzerScore.total]_vars

\* C5 (amended): one more finding strictly decreases the total whenever the
\* total before is above 0 and the total after is below the ceiling of 100.
C5_StrictBetweenClamps ==
    [][(OneMoreIssue /\ analyzerScore.total > 0 /\ analyzerScore'.total < 100)
          => analyzerScore'.total < analyzerScore.total]_vars

\* A file with several findings whose total is strictly between the clamps.
C5_Witness ==
    /\ BagCardinality(issues) >= 2
    /\ analyzerScore.total > 0
    /\ analyzerScore.total < 100

AxisValue(count, weight) == IF weight * count >= 100 THEN 0 ELSE 100 - weight * count

\* C6: memoryLeaks = max(0, 100 - 20*high), performance = max(0, 100 - 10*medium),
\* codeQuality = max(0, 100 - 5*low); each is an integer in 0..100.
C6_Breakdown ==
    /\ analyzerScore.breakdown.memoryLeaks = AxisValue(nHigh, 20)
    /\ analyzerScore.breakdown.performance = AxisValue(nMedium, 10)
    /\ analyzerScore.breakdown.codeQuality = AxisValue(nLow, 5)
    /\ analyzerScore.breakdown.memoryLeaks \in 0..100
    /\ analyzerScore.breakdown.performance \in 0..100
    /\ analyzerScore.breakdown.codeQuality \in 0..100

\* Every axis has more findings than its weight can deduct from 100.
C6_Witness ==
    /\ nHigh > 5 /\ nMedium > 10 /\ nLow > 20
    /\ analyzerScore.breakdown.memoryLeaks = 0
    /\ analyzerScore.breakdown.performance = 0
    /\ analyzerScore.breakdown.codeQuality = 0

\* The file analysis of the README's example report: one finding of each
\* severity.
ExampleReport == nHigh = 1 /\ nMedium = 1 /\ nLow = 1

-----------------------------------------------------------------------------
(* Properties of the comparison, checked under Spec *)

Range(seq) == {seq[i] : i \in 1..Len(seq)}

\* A comparison has been returned.
Compared == result.op = "compareWithBaseline" /\ result.value # Null

PathSet(snapshot) == {f.filePath : f \in Range(snapshot.fileAnalysis)}

\* The decimal literal (in thousandths) of a number field; null counts as 0.
Literal(v) == IF v = Null THEN 0 ELSE v.num

\* The score literal of the file p in a snapshot.
ScoreOf(snapshot, p) ==
    Literal((CHOOSE f \in Range(snapshot.fileAnalysis) : f.filePath = p).score)

CommonPaths == PathSet(result.value.baseline) \cap PathSet(result.value.current)

RegressedSet == Range(result.value.regression.filesWithRegressions)

ImprovedSet == Range(result.value.improvement.filesWithImprovements)

UnchangedSet == Range(result.value.unchanged.files)

\* C7: filesWithRegressions is exactly the set of paths present in both
\* snapshots whose current score is lower than the baseline score,
\* filesWithImprovements exactly those whose current score is higher, and a
\* file present in only one snapshot is in none of the three buckets.
C7_FileBuckets ==
    Compared =>
        LET B == result.value.baseline
            C == result.value.current
        IN  /\ RegressedSet = {p \in CommonPaths : ScoreOf(C, p) < ScoreOf(B, p)}
            /\ ImprovedSet = {p \in CommonPaths : ScoreOf(C, p) > ScoreOf(B, p)}
            /\ \A p \in (PathSet(B) \cup PathSet(C)) \ CommonPaths :
                  p \notin RegressedSet \cup ImprovedSet \cup UnchangedSet

\* a.ts dropped from 80 to 60 and b.ts is new in the current snapshot.
C7_Witness ==
    /\ Compared
    /\ result.value.regression.filesWithRegressions = <<"a.ts">>
    /\ PathSet(result.value.baseline) = {"a.ts"}
    /\ PathSet(result.value.current) = {"a.ts", "b.ts"}
    /\ ScoreOf(result.value.baseline, "a.ts") = 80000
    /\ ScoreOf(result.value.current, "a.ts") = 60000

\* C25: each file present in both snapshots is in exactly one of
\* filesWithRegressions, filesWithImprovements and unchanged.files: the three
\* buckets are pairwise disjoint and together cover the common files, also
\* when the scores differ by less than the tolerance without being equal.
C25_ExactlyOneBucket ==
    Compared =>
        /\ RegressedSet \cap ImprovedSet = {}
        /\ RegressedSet \cap UnchangedSet = {}
        /\ ImprovedSet \cap UnchangedSet = {}
        /\ RegressedSet \cup ImprovedSet \cup UnchangedSet = CommonPaths

Distance(a, b) == IF a >= b THEN a - b ELSE b - a

\* C8: a file whose scores differ by exactly 0.009 is classified unchanged;
\* a file whose scores differ by 0.01 is classified as a regression or an
\* improvement according to the sign, and not as unchanged.
C8_ToleranceBoundary ==
    Compared =>
        \A p \in CommonPaths :
            LET b == ScoreOf(result.value.baseline, p)
                c == ScoreOf(result.value.current, p)
            IN  /\ Distance(c, b) = 9 => p \in UnchangedSet
                /\ Distance(c, b) = 10 =>
                      /\ p \in RegressedSet <=> c < b
                      /\ p \in ImprovedSet <=> c > b
                      /\ p \notin UnchangedSet

Positive(x) == x # NaN /\ ~x.neg /\ x.mag # <<>>

Negative(x) == x # NaN /\ x.neg /\ x.mag # <<>>

\* x - y of two average scores.
Difference ==
    [x \in AverageValues, y \in AverageValues |-> NumMinus(ToNumber(x), ToNumber(y))]

\* max(0, x - y) of two average scores: the difference when x is the larger
\* one, else 0; not a number when x or y is not a number.
ExpectedExcess(x, y) ==
    IF x = NaN \/ y = NaN THEN NaN
    ELSE IF Literal(x) > Literal(y) THEN Difference[x, y]
    ELSE NumZero

ExpectedIncrease(from, to) == IF to > from THEN to - from ELSE 0

\* C9: regression.totalIssues = max(0, current - baseline),
\* regression.highSeverityIssues = max(0, current - baseline),
\* regression.averageScore = max(0, baseline - current), improvement.* the
\* same with the operands swapped; per metric the two values are never both
\* positive and neither is ever negative.
C9_AggregateDeltas ==
    Compared =>
        LET B == result.value.baseline.metrics
            C == result.value.current.metrics
            reg == result.value.regression
            imp == result.value.improvement
        IN  /\ reg.totalIssues = ExpectedIncrease(B.totalIssues, C.totalIssues)
            /\ imp.totalIssues = ExpectedIncrease(C.totalIssues, B.totalIssues)
            /\ reg.highSeverityIssues
                  = ExpectedIncrease(B.highSeverityIssues, C.highSeverityIssues)
            /\ imp.highSeverityIssues
                  = ExpectedIncrease(C.highSeverityIssues, B.highSeverityIssues)
            /\ reg.averageScore = ExpectedExcess(B.averageScore, C.averageScore)
            /\ imp.averageScore = ExpectedExcess(C.averageScore, B.averageScore)
            /\ ~(reg.totalIssues > 0 /\ imp.totalIssues > 0)
            /\ ~(reg.highSeverityIssues > 0 /\ imp.highSeverityIssues > 0)
            /\ ~(Positive(reg.averageScore) /\ Positive(imp.averageScore))
            /\ reg.totalIssues >= 0 /\ imp.totalIssues >= 0
            /\ reg.highSeverityIssues >= 0 /\ imp.highSeverityIssues >= 0
            /\ ~Negative(reg.averageScore) /\ ~Negative(imp.averageScore)

\* The average score dropped from 80 to 60 while the issue counts went down.
C9_Witness ==
    /\ Compared
    /\ result.value.baseline.metrics.averageScore = Num(80000)
    /\ result.value.current.metrics.averageScore = Num(60000)
    /\ Positive(result.value.regression.averageScore)
    /\ result.value.improvement.averageScore = NumZero
    /\ result.value.improvement.totalIssues > 0
    /\ result.value.improvement.highSeverityIssues > 0
    /\ result.value.regression.totalIssues = 0

\* The snapshot compared is the one last saved as the baseline of the branch.
ComparedWithItself ==
    /\ Compared
    /\ \E b \in Branches : baselineDir[b] = JsonStringify(result.value.current)
    /\ result.value.baseline = JsonStringify(result.value.current)

\* C10: comparing a snapshot A against itself as the stored baseline yields
\* regression.totalIssues = 0, improvement.totalIssues = 0, no regressed and
\* no improved files, and every file of A in unchanged.files with
\* unchanged.totalFiles equal to the number of files of A.
C10_SelfComparison ==
    ComparedWithItself =>
        LET A == result.value.current
        IN  /\ result.value.regression.totalIssues = 0
            /\ result.value.improvement.totalIssues = 0
            /\ result.value.regression.filesWithRegressions = <<>>
            /\ result.value.improvement.filesWithImprovements = <<>>
            /\ result.value.unchanged.files = FilePaths(A.fileAnalysis)
            /\ result.value.unchanged.totalFiles = Len(A.fileAnalysis)

\* A snapshot of two files with issues, compared with itself.
C10_Witness ==
    /\ ComparedWithItself
    /\ Len(result.value.current.fileAnalysis) = 2
    /\ result.value.current.metrics.totalIssues > 0
    /\ result.value.unchanged.totalFiles = 2

-----------------------------------------------------------------------------
(* Properties of the alert report, checked under SpecAlert *)

\* generateAlertReport has returned a report.
Reported == result.op = "generateAlertReport"

\* ... for a branch that has a baseline.
ReportedWithBaseline == Reported /\ baselineDir[result.baselineBranch] # Absent

\* ... for a branch that has none.
ReportedWithoutBaseline == Reported /\ baselineDir[result.baselineBranch] = Absent

Texts(entries) == [i \in 1..Len(entries) |-> entries[i].text]

Listed(condition, text) == IF condition THEN <<text>> ELSE <<>>

RECURSIVE BitsToNat(_)
BitsToNat(bits) ==
    IF bits = <<>> THEN 0
    ELSE 2 * BitsToNat(SubSeq(bits, 1, Len(bits) - 1)) + bits[Len(bits)]

\* The whole part of a number that is not negative.
WholePart(x) ==
    IF Len(x.mag) <= UnitBits THEN 0
    ELSE BitsToNat(SubSeq(x.mag, 1, Len(x.mag) - UnitBits))

HasFraction(x) ==
    \E i \in 1..Len(x.mag) : i > Len(x.mag) - UnitBits /\ x.mag[i] = 1

\* x > t for a number x and an integer t >= 0
Exceeds(x, t) ==
    /\ x # NaN
    /\ ~x.neg
    /\ \/ WholePart(x) > t
       \/ WholePart(x) = t /\ HasFraction(x)

\* C11: with a baseline, criticalIssues holds one entry per threshold strictly
\* exceeded (average score, high severity issues, total issues), in that
\* order, every check being made whatever the outcome of the others;
\* warnings holds one entry iff 0 < regression.averageScore <=
\* maxScoreRegression, followed by one entry iff filesWithRegressions is not
\* empty; a value equal to its threshold is not critical.
C11_AlertChecks ==
    ReportedWithBaseline =>
        LET report == result.value
            reg == report.details.regression
        IN  /\ Texts(report.criticalIssues) =
                  Listed(Exceeds(reg.averageScore, thresholds.maxScoreRegression),
                         "Performance score regressed by")
                  \o Listed(reg.highSeverityIssues > thresholds.maxHighSeverityIncrease,
                            "High severity issues increased by")
                  \o Listed(reg.totalIssues > thresholds.maxTotalIssuesIncrease,
                            "Total issues increased by")
            /\ Texts(report.warnings) =
                  Listed(/\ Positive(reg.averageScore)
                         /\ ~Exceeds(reg.averageScore, thresholds.maxScoreRegression),
                         "Performance score slightly regressed by")
                  \o Listed(reg.filesWithRegressions # <<>>,
                            "files show performance regressions")

\* All three thresholds are exceeded at once and a file regressed.
C11_Witness ==
    /\ ReportedWithBaseline
    /\ Len(result.value.criticalIssues) = 3
    /\ Len(result.value.warnings) = 1
    /\ result.value.details.regression.highSeverityIssues > 0

\* C12: with a baseline, hasRegressions is true iff criticalIssues is not
\* empty; status is 'fail' iff criticalIssues is not empty, 'warning' iff
\* criticalIssues is empty and warnings is not, 'pass' iff both are empty,
\* whatever the improvements and recommendations.
C12_Verdict ==
    ReportedWithBaseline =>
        LET report == result.value
        IN  /\ report.hasRegressions <=> report.criticalIssues # <<>>
            /\ report.summary.status = "fail" <=> report.criticalIssues # <<>>
            /\ report.summary.status = "warning" <=>
                  report.criticalIssues = <<>> /\ report.warnings # <<>>
            /\ report.summary.status = "pass" <=>
                  report.criticalIssues = <<>> /\ report.warnings = <<>>

\* A warning report that also holds an improvement and recommendations.
C12_Witness ==
    /\ ReportedWithBaseline
    /\ result.value.summary.status = "warning"
    /\ result.value.hasImprovements
    /\ Len(result.value.recommendations) > 1

\* C13: the score of every report is an integer in 0..100: max(0, 100 - 20 *
\* len(criticalIssues)) when the status is 'fail', max(50, 100 - 10 *
\* len(warnings)) when the status is 'warning' and there is a baseline, 100
\* when the status is 'pass'.
C13_ReportScore ==
    Reported =>
        LET report == result.value
            st == report.summary.status
            nCritical == Len(report.criticalIssues)
            nWarnings == Len(report.warnings)
        IN  /\ report.summary.score \in 0..100
            /\ st = "fail" =>
                  report.summary.score = Clamp(100 - 20 * nCritical, 0, 100)
            /\ st = "warning" /\ ReportedWithBaseline =>
                  report.summary.score = Clamp(100 - 10 * nWarnings, 50, 100)
            /\ st = "pass" => report.summary.score = 100

\* A failing report with three critical issues scores 40.
C13_Witness ==
    /\ ReportedWithBaseline
    /\ result.value.summary.status = "fail"
    /\ Len(result.value.criticalIssues) = 3
    /\ result.value.summary.score = 40

\* C14: without a baseline for the branch the report has status 'warning',
\* score 0, exactly one critical issue (no baseline found), no warnings and
\* the recommendation to create a baseline, whatever the current snapshot and
\* the thresholds; no threshold is looked at.
C14_NoBaseline ==
    ReportedWithoutBaseline =>
        LET report == result.value
        IN  /\ report.summary.status = "warning"
            /\ report.summary.score = 0
            /\ Texts(report.criticalIssues) = <<"No baseline found for comparison">>
            /\ report.warnings = <<>>
            /\ Texts(report.recommendations) = <<"Create a baseline snapshot first">>
            /\ report.details.regression.totalIssues = 0
            /\ report.details.regression.highSeverityIssues = 0
            /\ report.details.regression.averageScore = NumZero
            /\ report.details.regression.filesWithRegressions = <<>>

\* No baseline, thresholds of 0 and a current snapshot with a high severity
\* issue: with a baseline of no issues both thresholds would be exceeded.
C14_Witness ==
    /\ ReportedWithoutBaseline
    /\ thresholds.maxHighSeverityIncrease = 0
    /\ thresholds.maxTotalIssuesIncrease = 0
    /\ result.currentSnapshot.metrics.highSeverityIssues > 0
    /\ Len(result.value.criticalIssues) = 1

-----------------------------------------------------------------------------
(* Properties of the snapshot files, checked under SpecStore *)

\* The call just made from the idle state.
Called(op) == result.op = "idle" /\ result'.op = op

\* C15: a snapshot just saved, by saveSnapshot or by createSnapshot, is
\* loaded back by loadSnapshot(id) as a value equal to it.
C15_RoundTrip ==
    /\ result.op = "saveSnapshot" =>
          loadSnapshot(snapshotsDir, result.snapshot.id) = result.snapshot
    /\ result.op = "createSnapshot" =>
          loadSnapshot(snapshotsDir, result.value.id) = result.value

\* C16: the four averages of a snapshot made by createSnapshot, as returned
\* and as stored, are numbers: never NaN and never null.
C16_AveragesAreNumbers ==
    result.op = "createSnapshot" =>
        \A k \in AverageMetrics :
            /\ result.value.metrics[k] \notin {NaN, Null}
            /\ snapshotsDir[result.value.id].metrics[k] \notin {NaN, Null}

\* C17: createSnapshot never writes to the file of an id that a stored
\* snapshot already has.
C17_FreshId ==
    [][Called("createSnapshot") => snapshotsDir[result'.value.id] = Absent]_vars

\* C18: after saveBaseline(s, b) loadBaseline(b) returns s as it is written
\* to the baseline file, which is s itself unless an average of s is NaN;
\* the baseline of a branch changes by a saveBaseline for that branch only, a
\* saveBaseline leaves the snapshot files as they are, and loadBaseline
\* returns what the baseline file of the branch holds.
C18_BaselineOverwrite ==
    /\ [](result.op = "saveBaseline" =>
            /\ loadBaseline(baselineDir, result.branch) = JsonStringify(result.snapshot)
            /\ (\A k \in AverageMetrics : result.snapshot.metrics[k] # NaN) =>
                  loadBaseline(baselineDir, result.branch) = result.snapshot)
    /\ [](result.op = "loadBaseline" /\ baselineDir[result.branch] # Absent =>
            result.value = baselineDir[result.branch])
    /\ [][\A b \in DOMAIN baselineDir :
            baselineDir'[b] # baselineDir[b] =>
                Called("saveBaseline") /\ result'.branch = b]_vars
    /\ [][Called("saveBaseline") => snapshotsDir' = snapshotsDir]_vars

\* A baseline was saved while another branch holds a different one and a
\* snapshot file exists.
C18_Witness ==
    /\ result.op = "saveBaseline"
    /\ StoredIds(snapshotsDir) # {}
    /\ \E b \in DOMAIN baselineDir :
          /\ b # result.branch
          /\ baselineDir[b] # Absent
          /\ baselineDir[b] # baselineDir[result.branch]

\* C19: loadSnapshot of an id without a file, loadBaseline of a branch
\* without a baseline and compareWithBaseline against such a branch return
\* null, and none of the three changes a file.
C19_NotFound ==
    /\ [](result.op = "loadSnapshot" /\ snapshotsDir[result.snapshotId] = Absent =>
            result.value = Null)
    /\ [](result.op = "loadBaseline" /\ baselineDir[result.branch] = Absent =>
            result.value = Null)
    /\ [](result.op = "compareWithBaseline" /\ baselineDir[result.baselineBranch] = Absent =>
            result.value = Null)
    /\ [][Called("loadSnapshot") \/ Called("loadBaseline") \/ Called("compareWithBaseline") =>
            snapshotsDir' = snapshotsDir /\ baselineDir' = baselineDir]_vars

\* loadSnapshot returned null for an id of an earlier instant while other
\* files and no baseline for "develop" exist.
C19_Witness ==
    /\ result.op = "loadSnapshot"
    /\ result.value = Null
    /\ result.snapshotId.time < now
    /\ StoredIds(snapshotsDir) # {}
    /\ baselineDir["develop"] = Absent

\* C20: cleanupOldSnapshots(maxAge) at time now deletes every snapshot file
\* whose timestamp is below now - maxAge, leaves every other snapshot file as
\* it is, and leaves every baseline as it is.
C20_Cleanup ==
    [][Called("cleanupOldSnapshots") =>
        /\ \A id \in DOMAIN snapshotsDir :
              IF /\ snapshotsDir[id] # Absent
                 /\ snapshotsDir[id].timestamp < now - result'.maxAge
              THEN snapshotsDir'[id] = Absent
              ELSE snapshotsDir'[id] = snapshotsDir[id]
        /\ baselineDir' = baselineDir]_vars

\* After a cleanup a snapshot with timestamp equal to the cutoff is still
\* there, no file of an earlier instant is, and a baseline older than the
\* cutoff is still there.
C20_Witness ==
    /\ result.op = "cleanupOldSnapshots"
    /\ \E id \in StoredIds(snapshotsDir) :
          snapshotsDir[id].timestamp = now - result.maxAge
    /\ \E id \in DOMAIN snapshotsDir : id.time < now - result.maxAge
    /\ \A id \in StoredIds(snapshotsDir) : id.time >= now - result.maxAge
    /\ \E b \in DOMAIN baselineDir :
          baselineDir[b] # Absent /\ baselineDir[b].timestamp < now - result.maxAge

\* What a call of compareWithBaseline or generateAlertReport with the
\* arguments of the awaited call returns in this state.
Again ==
    IF result.op = "compareWithBaseline"
    THEN compareWithBaseline(baselineDir, result.currentSnapshot, result.baselineBranch)
    ELSE generateAlertReport(baselineDir, thresholds, result.currentSnapshot,
                             result.baselineBranch)

\* C26: compareWithBaseline and generateAlertReport leave every stored
\* snapshot, every baseline and every other file of the directory as they
\* are; the comparison holds the current snapshot as it was passed in; and a
\* second call with the same arguments right after the first returns the same
\* value.
C26_ReadOnly ==
    /\ [][Called("compareWithBaseline") \/ Called("generateAlertReport") =>
              /\ snapshotsDir' = snapshotsDir
              /\ baselineDir' = baselineDir
              /\ otherFiles' = otherFiles]_vars
    /\ [](result.op \in {"compareWithBaseline", "generateAlertReport"} =>
              result.value = Again)
    /\ [](result.op = "compareWithBaseline" /\ result.value # Null =>
              result.value.current = result.currentSnapshot)

\* Reached: a report on a snapshot, generated against a stored baseline while
\* the directory holds a snapshot file.
C26_Witness ==
    /\ result.op = "generateAlertReport"
    /\ baselineDir[result.baselineBranch] # Absent
    /\ StoredIds(snapshotsDir) # {}
    /\ result.value.summary.status = "pass"

-----------------------------------------------------------------------------
(* Properties of the snapshot directory under CI runs (SpecCI) *)

\* The documents stored as <id>.json.
StoredSnapshots == {snapshotsDir[id] : id \in StoredIds(snapshotsDir)}

\* C21: listSnapshots returns the stored snapshots ordered by timestamp
\* descending, each element's timestamp being at least the next one's; an
\* entry that cannot be read or parsed is skipped and every other entry is
\* still returned.
C21_ListingOrdered ==
    result.op = "listSnapshots" =>
        /\ \A i \in DOMAIN result.value : "timestamp" \in DOMAIN result.value[i]
        /\ \A i, j \in DOMAIN result.value :
              i < j => result.value[i].timestamp >= result.value[j].timestamp
        /\ \A i \in DOMAIN result.value : result.value[i] # Unparsable
        /\ \A s \in StoredSnapshots : \E i \in DOMAIN result.value : result.value[i] = s

\* The snapshot a call of createSnapshot has returned, directly or within a
\* CI run.
Created ==
    IF result.op = "createSnapshot" THEN {result.value}
    ELSE IF result.op = "run" /\ result.analyzed > 0 THEN {result.snapshot}
    ELSE {}

\* C23: in every snapshot createSnapshot returns, metrics.totalFiles is the
\* length of fileAnalysis and no two entries of fileAnalysis have the same
\* filePath, whatever list of analyses was passed in.
C23_FilesCountedOnce ==
    \A s \in Created :
        /\ s.metrics.totalFiles = Len(s.fileAnalysis)
        /\ \A i, j \in DOMAIN s.fileAnalysis :
              s.fileAnalysis[i].filePath = s.fileAnalysis[j].filePath => i = j

\* C27: after any sequence of createSnapshot, saveSnapshot, saveBaseline,
\* cleanupOldSnapshots and CI runs, listSnapshots returns exactly the
\* snapshots saved by id and not deleted since: each of them once, and nothing
\* that is not a saved snapshot.
C27_ListsExactlySaved ==
    result.op = "listSnapshots" =>
        /\ \A s \in StoredSnapshots :
              Cardinality({i \in DOMAIN result.value : result.value[i] = s}) = 1
        /\ \A i \in DOMAIN result.value : result.value[i] \in StoredSnapshots

\* C28: a CI run whose steps throw no exception ends the process with exit
\* code 1 exactly when the report's status is 'fail' and failOnRegression is
\* enabled; a run without a baseline for the baseline branch has status
\* 'warning' and exit code 0; a run that finds no file to analyse creates no
\* snapshot, writes nothing and ends with exit code 0.
C28_ExitCode ==
    /\ [](result.op = "run" /\ result.analyzed > 0 =>
              /\ result.exitCode = 1 <=>
                    (result.report.summary.status = "fail" /\ result.failOnRegression)
              /\ result.exitCode \in {0, 1}
              /\ baselineDir["main"] = Absent =>
                    (result.report.summary.status = "warning" /\ result.exitCode = 0))
    /\ [](result.op = "run" /\ result.analyzed = 0 =>
              result.snapshot = Null /\ result.exitCode = 0)
    /\ [][Called("run") /\ result'.analyzed = 0 =>
              snapshotsDir' = snapshotsDir /\ otherFiles' = otherFiles]_vars
    /\ [][Called("run") => baselineDir' = baselineDir]_vars

\* Reached: a run against a stored baseline whose report fails, with
\* failOnRegression enabled: the process exits with code 1.
C28_Witness ==
    /\ result.op = "run"
    /\ result.analyzed > 0
    /\ baselineDir["main"] # Absent
    /\ result.report.summary.status = "fail"
    /\ result.failOnRegression
    /\ result.exitCode = 1

-----------------------------------------------------------------------------
(* Properties of calls that are not awaited one by one (SpecRace) *)

\* The saveBaseline calls made for the branch.
Writers(branch) ==
    {c \in Made : calls[c].op = "saveBaseline" /\ calls[c].branch = branch}

\* The one of them that ran last.
LastWriter(branch) ==
    CHOOSE c \in Writers(branch) : \A d \in Writers(branch) : calls[d].order <= calls[c].order

\* The createSnapshot calls made.
Creators == {c \in Made : calls[c].op = "createSnapshot"}

\* C22: under every interleaving of saveBaseline calls that are not awaited
\* one by one, the baseline stored for a branch is the written form of the
\* snapshot of the call that wrote last, never a mixture or an absent value; a
\* branch no call was made for keeps its baseline; createSnapshot calls with
\* different ids each have their own snapshot stored.
C22_LastWriterWins ==
    /\ \A b \in StoreBranches :
          IF Writers(b) = {} THEN baselineDir[b] = Absent
          ELSE baselineDir[b] = JsonStringify(calls[LastWriter(b)].snapshot)
    /\ \A c \in Creators :
          (\A d \in Creators \ {c} : calls[d].snapshot.id # calls[c].snapshot.id)
              => snapshotsDir[calls[c].snapshot.id] = JsonStringify(calls[c].snapshot)

\* Reached: two saveBaseline calls with different snapshots for the same
\* branch, none for the other branch, next to a createSnapshot call whose
\* promise is still pending.
C22_Witness ==
    /\ \E c, d \in Writers("main") :
          /\ c # d
          /\ calls[c].snapshot # calls[d].snapshot
    /\ Writers("develop") = {}
    /\ \E c \in Creators : calls[c].pc = "saving"

-----------------------------------------------------------------------------
(* Properties of memoized functions (SpecMemo) *)

\* C29: a function wrapped by memoize returns, for every argument list and
\* after any calls of any memoized functions, the value the wrapped function
\* returns for these arguments; the wrapped function is invoked at most once
\* per key until clearMemoCache is called; a result cached for one memoized
\* function is never returned by another.
C29_Transparent ==
    /\ result.op = "memoized" => result.value = Apply(result.fn, result.args)
    /\ \A fn \in Wrapped, key \in MemoKeys : invocations[fn, key] <= 1

-----------------------------------------------------------------------------
(* Properties of the LazyLoader (SpecLazy) *)

\* C30: under every interleaving of get() calls, also of calls made while an
\* earlier get() awaits the loader, the loader is invoked at most once
\* between construction or reset() and the next reset(), and every get()
\* resolves to the module of that single invocation.
C30_LoadedOnce ==
    /\ loads.sinceReset <= 1
    /\ \A g \in Getters :
          getters[g].pc = "resolved" => getters[g].value \in {Instance(e, 1) : e \in 0..MaxResets}


====
